---- MODULE Spec2Model ----
(***************************************************************************)
(* Verification model of ScholarGraph3D's search core:                     *)
(*   - integrations/data_fusion.py   record fusion (DOI/title dedup, RRF)  *)
(*   - graph/similarity.py           bounded-degree similarity edges       *)
(*   - graph/bridge_detector.py      bridge nodes                          *)
(*   - routers/search.py             cache lookup, pipeline, cache write   *)
(*                                   and the detached citation enrichment  *)
(*                                                                         *)
(* Python strings are modelled as sequences of tokens (a token stands for  *)
(* a run of characters); None is the one-token sequence None.              *)
(***************************************************************************)
EXTENDS Integers, Sequences, FiniteSets, TLC

VARIABLES
    \* ---- fusion (DataFusionService._merge_results on its own) ----
    fOa,        \* provider-A (OpenAlex) result list
    fS2,        \* provider-B (Semantic Scholar) result list
    fOut,       \* the list _merge_results returned
    fPc,        \* "idle" | "input" | "merged" | "query" | "searched"
    fLimit,     \* the limit given to DataFusionService.search alone
    \* ---- similarity (SimilarityComputer.compute_edges on its own) ----
    sEmb,       \* embeddings, one vector per row
    sIds,       \* paper_ids
    sThr,       \* threshold, in hundredths
    sMax,       \* max_edges_per_node
    sOut,       \* the edge list compute_edges returned
    sPc,        \* "idle" | "input" | "done"
    \* ---- one more function called on its own ----
    callFn,     \* its name, "none" when there is no such call
    callArgs,   \* its arguments, a record
    callOut,    \* what it returned
    callPc,     \* "idle" | "input" | "done"
    \* ---- the search endpoint and its detached enrichment tasks ----
    env,        \* the surroundings of a run: who calls, and what upstream may answer
    now,        \* the database clock NOW(), in hours
    dbConnected,\* db.is_connected
    cache,      \* table search_cache: cache_key -> row
    pc,         \* per request: "idle" | "fuse" | "build" | "write" | "done"
    request,        \* per request: the SearchRequest
    lookup,     \* per request: "skipped" | "error" | "miss" | "hit" | "unreadable",
                \* how its cache lookup ended ("none" before, and once the graph is built)
    provRaw,        \* per request: the two provider answers given to fusion
    fused,     \* per request: what DataFusionService.search returned
    respMeta,       \* per request: the handler's meta dict
    lists,      \* the heap of list objects: object -> contents
    tpc,        \* per task: "none" | "start" | "fetch" | "write" | "done"
    targs,      \* per task: the arguments of _enrich_citations_background
    tloc        \* per task: its locals

fusVars == <<fOa, fS2, fOut, fPc, fLimit>>
simVars == <<sEmb, sIds, sThr, sMax, sOut, sPc>>
callVars == <<callFn, callArgs, callOut, callPc>>
reqVars == <<pc, request, lookup, provRaw, fused, respMeta>>
taskVars == <<tpc, targs, tloc>>
orchVars == <<env, now, dbConnected, cache, reqVars, lists, taskVars>>
vars == <<fusVars, simVars, callVars, orchVars>>

(***************************************************************************)
(* Generic helpers                                                         *)
(***************************************************************************)
SeqsUpTo(S, n) == UNION {[1..k -> S] : k \in 0..n}

SetMax(S) == CHOOSE x \in S : \A y \in S : y <= x

\* The element of a one-element set.  The({F(v) : v \in {e}}) is F(e) with e
\* worked out once, the way a Python local holds a value once assigned.
The(S) == CHOOSE x \in S : TRUE

Range(s) == {s[i] : i \in 1..Len(s)}

(***************************************************************************)
(* Python str operations on token sequences                                *)
(***************************************************************************)
None == <<"<None>">>

\* "if s:" for an Optional[str]
Truthy(s) == s # None /\ s # <<>>

\* str.lower(), token by token
LowerTok(t) ==
    CASE t = "HTTPS://DOI.ORG/" -> "https://doi.org/"
      [] t = "DOI:"             -> "doi:"
      [] t = "10.1/X"           -> "10.1/x"
      [] t = "10.2/Y"           -> "10.2/y"
      [] t = "Alpha"            -> "alpha"
      [] t = "Beta"             -> "beta"
      [] t = "Gamma"            -> "gamma"
      [] t = "Delta"            -> "delta"
      [] OTHER                  -> t

StrLower(s) == [i \in 1..Len(s) |-> LowerTok(s[i])]

RECURSIVE LStrip(_)
LStrip(s) == IF s # <<>> /\ Head(s) = " " THEN LStrip(Tail(s)) ELSE s

RECURSIVE RStrip(_)
RStrip(s) ==
    IF s # <<>> /\ s[Len(s)] = " " THEN RStrip(SubSeq(s, 1, Len(s) - 1)) ELSE s

\* str.strip()
StrStrip(s) == RStrip(LStrip(s))

\* s[len(prefix):] if s.startswith(prefix) else s   (a prefix is one token)
DropPrefix(s, prefix) == IF s # <<>> /\ Head(s) = prefix THEN Tail(s) ELSE s

\* _normalize_doi: strip, lower, then drop each of the three prefixes in turn
NormalizeDoi(doi) ==
    IF ~Truthy(doi) THEN None
    ELSE DropPrefix(DropPrefix(DropPrefix(StrLower(StrStrip(doi)),
                    "https://doi.org/"), "http://doi.org/"), "doi:")

\* title.lower().strip()
TitleKey(title) == StrStrip(StrLower(title))

(***************************************************************************)
(* Python dict (insertion ordered) as a sequence of [k, v] entries         *)
(***************************************************************************)
DictHas(d, k) == \E i \in 1..Len(d) : d[i].k = k

DictGet(d, k) == d[CHOOSE i \in 1..Len(d) : d[i].k = k].v

\* d.get(k, default)
DictGetOr(d, k, default) == IF DictHas(d, k) THEN DictGet(d, k) ELSE default

\* None where a dict is expected, and "if d:" for an Optional[dict]
NoneDict == <<[k |-> "<None>", v |-> << >>]>>

DictTruthy(d) == d # NoneDict /\ d # << >>

\* d[k] = v : a present key keeps its position and takes the new value
DictSet(d, k, v) ==
    IF DictHas(d, k)
    THEN [i \in 1..Len(d) |-> IF d[i].k = k THEN [k |-> k, v |-> v] ELSE d[i]]
    ELSE Append(d, [k |-> k, v |-> v])

\* d.pop(k)
DictPop(d, k) == SelectSeq(d, LAMBDA e : e.k # k)

(***************************************************************************)
(* integrations/data_fusion.py                                             *)
(***************************************************************************)
\* _RRF_K
RRF_K == 60

NoEmbedding == << >>

\* "venue = None; if work.primary_location: source = ....get("source");
\*  if source: venue = source.get("display_name")"
OaVenue(primary_location) ==
    IF ~DictTruthy(primary_location) THEN None
    ELSE LET source == DictGetOr(primary_location, "source", NoneDict)
         IN IF ~DictTruthy(source) THEN None ELSE DictGetOr(source, "display_name", None)

\* _oa_work_to_unified
OaWorkToUnified(work) ==
    [doi            |-> NormalizeDoi(work.doi),
     title          |-> work.title,
     abstract       |-> work.abstract,
     venue          |-> OaVenue(work.primary_location),
     oa_topics      |-> work.topics,
     citation_count |-> work.citation_count,
     tldr           |-> None,
     embedding      |-> NoEmbedding,
     s2_paper_id    |-> None,
     oa_work_id     |-> work.id,
     rrf_score      |-> [num |-> 0, den |-> 1]]

\* _s2_paper_to_unified
S2PaperToUnified(paper) ==
    [doi            |-> NormalizeDoi(paper.doi),
     title          |-> paper.title,
     abstract       |-> paper.abstract,
     venue          |-> paper.venue,
     oa_topics      |-> << >>,
     citation_count |-> paper.citation_count,
     tldr           |-> paper.tldr,
     embedding      |-> paper.embedding,
     s2_paper_id    |-> paper.paper_id,
     oa_work_id     |-> None,
     rrf_score      |-> [num |-> 0, den |-> 1]]

\* The rank maps: rank_by_doi[doi] = rank for every result with a usable DOI,
\* a later result overwriting an earlier one (ranks are 0-based).
RankByDoi(results, doi, default) ==
    LET hits == {i \in 1..Len(results) :
                    /\ Truthy(NormalizeDoi(results[i].doi))
                    /\ NormalizeDoi(results[i].doi) = doi}
    IN IF hits = {} THEN default ELSE SetMax(hits) - 1

\* rank_by_title[title.lower().strip()] = rank for every result with a title
RankByTitle(results, key, default) ==
    LET hits == {i \in 1..Len(results) :
                    /\ Truthy(results[i].title)
                    /\ TitleKey(results[i].title) = key}
    IN IF hits = {} THEN default ELSE SetMax(hits) - 1

\* rank_by_doi.get(doi, rank_by_title.get(title_key, n)) if doi
\* else rank_by_title.get(title_key, n)
RankOf(results, doi, title) ==
    LET n  == IF Len(results) > 1 THEN Len(results) ELSE 1
        bt == RankByTitle(results, TitleKey(title), n)
    IN IF Truthy(doi) THEN RankByDoi(results, doi, bt) ELSE bt

\* _compute_rrf: 1/(K + oa_rank) + 1/(K + s2_rank), kept as a fraction
ComputeRrf(oa_results, s2_results, doi, title) ==
    LET a == RRF_K + RankOf(oa_results, doi, title)
        b == RRF_K + RankOf(s2_results, doi, title)
    IN [num |-> a + b, den |-> a * b]

\* s2_by_doi: the S2 results indexed by normalized DOI
RECURSIVE S2ByDoi(_, _)
S2ByDoi(s2_results, i) ==
    IF i = 0 THEN << >>
    ELSE LET d   == S2ByDoi(s2_results, i - 1)
             doi == NormalizeDoi(s2_results[i].doi)
         IN IF Truthy(doi) THEN DictSet(d, doi, s2_results[i]) ELSE d

\* s2_by_title: the S2 results indexed by lowercased, trimmed title
RECURSIVE S2ByTitle(_, _)
S2ByTitle(s2_results, i) ==
    IF i = 0 THEN << >>
    ELSE LET d == S2ByTitle(s2_results, i - 1)
         IN IF Truthy(s2_results[i].title)
            THEN DictSet(d, TitleKey(s2_results[i].title), s2_results[i])
            ELSE d

\* A variant that lets a fallback replace an abstract that is there
AbstractOrReplace(abstract, x) == IF Truthy(x) THEN x ELSE abstract

\* "if not unified.abstract and x: unified.abstract = x"
AbstractOr(abstract, x) == IF ~Truthy(abstract) /\ Truthy(x) THEN x ELSE abstract

\* One turn of "for oa_work in oa_results" on the merge state st
MergeOaWork(oa_results, s2_results, st, oa_work) ==
    LET unified == OaWorkToUnified(oa_work)
        doi     == NormalizeDoi(oa_work.doi)
        byDoi   == Truthy(doi) /\ DictHas(st.s2_by_doi, doi)
        tkey    == TitleKey(oa_work.title)
        byTitle == ~byDoi /\ Truthy(oa_work.title) /\ DictHas(st.s2_by_title, tkey)
        matched == byDoi \/ byTitle
        s2_match == IF byDoi THEN DictGet(st.s2_by_doi, doi)
                    ELSE DictGet(st.s2_by_title, tkey)
        enriched == IF matched
                    THEN [unified EXCEPT
                            !.s2_paper_id = s2_match.paper_id,
                            !.tldr        = s2_match.tldr,
                            !.embedding   = s2_match.embedding,
                            !.abstract    = AbstractOr(unified.abstract, s2_match.abstract)]
                    ELSE unified
        final == [enriched EXCEPT
                    !.abstract  = AbstractOr(enriched.abstract, enriched.tldr),
                    !.rrf_score = ComputeRrf(oa_results, s2_results, doi, unified.title)]
    IN [merged      |-> Append(st.merged, final),
        seen_dois   |-> IF Truthy(doi) THEN st.seen_dois \cup {doi} ELSE st.seen_dois,
        seen_titles |-> IF Truthy(unified.title)
                        THEN st.seen_titles \cup {TitleKey(unified.title)}
                        ELSE st.seen_titles,
        s2_by_doi   |-> IF byDoi THEN DictPop(st.s2_by_doi, doi) ELSE st.s2_by_doi,
        s2_by_title |-> IF byTitle THEN DictPop(st.s2_by_title, tkey) ELSE st.s2_by_title]

RECURSIVE MergeOaLoop(_, _, _, _)
MergeOaLoop(oa_results, s2_results, st, i) ==
    IF i > Len(oa_results) THEN st
    ELSE The({MergeOaLoop(oa_results, s2_results, st1, i + 1) :
                st1 \in {MergeOaWork(oa_results, s2_results, st, oa_results[i])}})

\* An S2-only record as it is appended to merged
S2Only(oa_results, s2_results, s2_paper, doi) ==
    LET unified == S2PaperToUnified(s2_paper)
    IN [unified EXCEPT
          !.abstract  = AbstractOr(unified.abstract, unified.tldr),
          !.rrf_score = ComputeRrf(oa_results, s2_results, doi, unified.title)]

\* "for doi, s2_paper in s2_by_doi.items()"
RECURSIVE MergeS2DoiLoop(_, _, _, _)
MergeS2DoiLoop(oa_results, s2_results, st, i) ==
    IF i > Len(st.s2_by_doi) THEN st
    ELSE LET doi      == st.s2_by_doi[i].k
             s2_paper == st.s2_by_doi[i].v
             tkey     == IF Truthy(s2_paper.title) THEN TitleKey(s2_paper.title) ELSE << >>
             emit     == doi \notin st.seen_dois /\ tkey # << >> /\ tkey \notin st.seen_titles
             st2      == IF emit
                         THEN [st EXCEPT
                                 !.merged      = Append(@, S2Only(oa_results, s2_results, s2_paper, doi)),
                                 !.seen_dois   = @ \cup {doi},
                                 !.seen_titles = @ \cup {tkey}]
                         ELSE st
         IN The({MergeS2DoiLoop(oa_results, s2_results, st3, i + 1) : st3 \in {st2}})

\* "for title_key, s2_paper in s2_by_title.items()"
RECURSIVE MergeS2TitleLoop(_, _, _, _)
MergeS2TitleLoop(oa_results, s2_results, st, i) ==
    IF i > Len(st.s2_by_title) THEN st
    ELSE LET tkey     == st.s2_by_title[i].k
             s2_paper == st.s2_by_title[i].v
             doi      == NormalizeDoi(s2_paper.doi)
             emit     == tkey \notin st.seen_titles
                         /\ ~(Truthy(doi) /\ doi \in st.seen_dois)
             st2      == IF emit
                         THEN [st EXCEPT
                                 !.merged      = Append(@, S2Only(oa_results, s2_results, s2_paper, doi)),
                                 !.seen_dois   = IF Truthy(doi) THEN @ \cup {doi} ELSE @,
                                 !.seen_titles = @ \cup {tkey}]
                         ELSE st
         IN The({MergeS2TitleLoop(oa_results, s2_results, st3, i + 1) : st3 \in {st2}})

\* DataFusionService._merge_results
MergeResults(oa_results, s2_results) ==
    LET st0 == [merged      |-> << >>,
                seen_dois   |-> {},
                seen_titles |-> {},
                s2_by_doi   |-> S2ByDoi(s2_results, Len(s2_results)),
                s2_by_title |-> S2ByTitle(s2_results, Len(s2_results))]
    IN The({The({The({MergeS2TitleLoop(oa_results, s2_results, st2, 1).merged :
                        st2 \in {MergeS2DoiLoop(oa_results, s2_results, st1, 1)}}) :
                   st1 \in {MergeOaLoop(oa_results, s2_results, st, 1)}}) :
              st \in {st0}})

(***************************************************************************)
(* graph/similarity.py                                                     *)
(* Embeddings are integer vectors whose norms are integers, so that every  *)
(* cosine similarity is an exact number of hundredths.                     *)
(***************************************************************************)
Dot(u, v) == u[1] * v[1] + u[2] * v[2]

\* np.linalg.norm of a row; "norms = np.where(norms == 0, 1, norms)"
Norm(v) ==
    LET n == CHOOSE k \in 0..5 : k * k = Dot(v, v)
    IN IF n = 0 THEN 1 ELSE n

\* similarity_matrix[i][j] = normalized[i] . normalized[j], in hundredths
SimilarityMatrix(embeddings, i, j) ==
    (100 * Dot(embeddings[i], embeddings[j])) \div (Norm(embeddings[i]) * Norm(embeddings[j]))

\* sims = similarity_matrix[i].copy(); sims[i] = -1
SimsRow(embeddings, i, j) == IF j = i THEN -100 ELSE SimilarityMatrix(embeddings, i, j)

\* above_threshold = np.where(sims >= threshold)[0]
AboveThreshold(embeddings, i, threshold) ==
    {j \in 1..Len(embeddings) : SimsRow(embeddings, i, j) >= threshold}

\* above_threshold[np.argsort(sims[above_threshold])[::-1]]: the ascending
\* sort of a short array keeps equal values in index order, and the reversal
\* puts the highest similarity first and, among equals, the highest index.
RECURSIVE SortedIndices(_, _, _)
SortedIndices(embeddings, i, S) ==
    IF S = {} THEN << >>
    ELSE The({<<best>> \o SortedIndices(embeddings, i, S \ {best}) :
                best \in {CHOOSE j \in S : \A k \in S :
                            \/ SimsRow(embeddings, i, j) > SimsRow(embeddings, i, k)
                            \/ /\ SimsRow(embeddings, i, j) = SimsRow(embeddings, i, k)
                               /\ j >= k}})

\* A variant of the cut that keeps the end of the sorted candidates
TopIndicesFromEnd(sorted_indices, max_edges_per_node) ==
    SubSeq(sorted_indices,
           IF max_edges_per_node < Len(sorted_indices)
           THEN Len(sorted_indices) - max_edges_per_node + 1 ELSE 1,
           Len(sorted_indices))

\* sorted_indices[:max_edges_per_node]
TopIndices(sorted_indices, max_edges_per_node) ==
    SubSeq(sorted_indices, 1,
           IF max_edges_per_node < Len(sorted_indices)
           THEN max_edges_per_node ELSE Len(sorted_indices))

\* degree.get(id, 0)
DegreeGet(degree, id) == IF id \in DOMAIN degree THEN degree[id] ELSE 0

DegreeInc(degree, id) ==
    [x \in DOMAIN degree \cup {id} |-> IF x = id THEN DegreeGet(degree, id) + 1 ELSE degree[x]]

\* A variant of the guards that lets the target pass the cap
EdgeAllowedUncappedTarget(i, j, degree, src, tgt, max_edges_per_node) ==
    /\ i < j
    /\ ~(DegreeGet(degree, src) >= max_edges_per_node)

\* A variant of the guards that takes a pair from either side
EdgeAllowedEitherSide(i, j, degree, src, tgt, max_edges_per_node) ==
    /\ i # j
    /\ ~(DegreeGet(degree, src) >= max_edges_per_node)
    /\ ~(DegreeGet(degree, tgt) >= max_edges_per_node)

\* The three guards of the inner loop: i < j, and neither endpoint at the cap
EdgeAllowed(i, j, degree, src, tgt, max_edges_per_node) ==
    /\ i < j
    /\ ~(DegreeGet(degree, src) >= max_edges_per_node)
    /\ ~(DegreeGet(degree, tgt) >= max_edges_per_node)

\* "for j in top_indices" on the state st = [edges, degree]
RECURSIVE InnerLoop(_, _, _, _, _, _, _)
InnerLoop(embeddings, paper_ids, max_edges_per_node, i, top, n, st) ==
    IF n > Len(top) THEN st
    ELSE LET j   == top[n]
             src == paper_ids[i]
             tgt == paper_ids[j]
             st2 == IF EdgeAllowed(i, j, st.degree, src, tgt, max_edges_per_node)
                    THEN [edges  |-> Append(st.edges,
                                       [source     |-> src,
                                        target     |-> tgt,
                                        similarity |-> SimsRow(embeddings, i, j),
                                        type       |-> "similarity"]),
                          degree |-> DegreeInc(DegreeInc(st.degree, src), tgt)]
                    ELSE st
         IN The({InnerLoop(embeddings, paper_ids, max_edges_per_node, i, top, n + 1, st3) :
                   st3 \in {st2}})

\* "for i in range(similarity_matrix.shape[0])"
RECURSIVE OuterLoop(_, _, _, _, _, _)
OuterLoop(embeddings, paper_ids, threshold, max_edges_per_node, i, st) ==
    IF i > Len(embeddings) THEN st
    ELSE The({The({OuterLoop(embeddings, paper_ids, threshold, max_edges_per_node, i + 1, st2) :
                     st2 \in {InnerLoop(embeddings, paper_ids, max_edges_per_node, i, top, 1, st)}}) :
                top \in {TopIndices(
                           SortedIndices(embeddings, i, AboveThreshold(embeddings, i, threshold)),
                           max_edges_per_node)}})

\* SimilarityComputer.compute_edges
ComputeEdges(embeddings, paper_ids, threshold, max_edges_per_node) ==
    IF Len(embeddings) < 2 THEN << >>
    ELSE OuterLoop(embeddings, paper_ids, threshold, max_edges_per_node, 1,
                   [edges |-> << >>, degree |-> << >>]).edges

(***************************************************************************)
(* DataFusionService.search: the two provider answers, merge, sort, cut    *)
(***************************************************************************)
\* sort key (p.embedding is None, -p.rrf_score): p sorts strictly before q
PaperBefore(p, q) ==
    LET pn == (p.embedding = NoEmbedding)
        qn == (q.embedding = NoEmbedding)
    IN \/ ~pn /\ qn
       \/ /\ pn = qn
          /\ p.rrf_score.num * q.rrf_score.den > q.rrf_score.num * p.rrf_score.den

\* list.sort is stable: x goes before the first element it sorts strictly before
RECURSIVE InsertPaper(_, _)
InsertPaper(sorted, x) ==
    IF sorted = << >> THEN <<x>>
    ELSE IF PaperBefore(x, Head(sorted)) THEN <<x>> \o sorted
    ELSE <<Head(sorted)>> \o InsertPaper(Tail(sorted), x)

RECURSIVE SortPapers(_, _)
SortPapers(merged, n) ==
    IF n = 0 THEN << >>
    ELSE The({InsertPaper(sorted, merged[n]) : sorted \in {SortPapers(merged, n - 1)}})

\* A provider answer is [ok |-> TRUE, results |-> list] or, when the call
\* raised (timeout, rate limit, any exception), [ok |-> FALSE, results |-> <<>>].
\* "if isinstance(raw, Exception): results = [] else: results = raw"
ResultsOrEmpty(raw) == IF raw.ok THEN raw.results ELSE << >>

\* A variant that cuts the merged list before it sorts it
SearchCutFirst(oa_raw, s2_raw, limit) ==
    The({SortPapers(cut, Len(cut)) :
           cut \in {The({SubSeq(merged, 1, IF limit < Len(merged) THEN limit ELSE Len(merged)) :
                           merged \in {MergeResults(ResultsOrEmpty(oa_raw),
                                                     ResultsOrEmpty(s2_raw))}})}})

\* DataFusionService.search after asyncio.gather(..., return_exceptions=True)
Search(oa_raw, s2_raw, limit) ==
    The({The({SubSeq(sorted, 1, IF limit < Len(sorted) THEN limit ELSE Len(sorted)) :
                sorted \in {SortPapers(merged, Len(merged))}}) :
           merged \in {MergeResults(ResultsOrEmpty(oa_raw), ResultsOrEmpty(s2_raw))}})

(***************************************************************************)
(* graph/bridge_detector.py                                                *)
(***************************************************************************)
\* node_cluster.get(id, -1)
NodeCluster(nodes, id) ==
    LET hits == {i \in 1..Len(nodes) : nodes[i].id = id}
    IN IF hits = {} THEN -1 ELSE nodes[SetMax(hits)].cluster_id

\* bridge_scores[id]: the other clusters credited to id by cross-cluster edges
BridgeScores(nodes, edges, id) ==
    {c \in {NodeCluster(nodes, nodes[i].id) : i \in 1..Len(nodes)} :
        \E e \in Range(edges) :
            LET sc == NodeCluster(nodes, e.source)
                tc == NodeCluster(nodes, e.target)
            IN /\ sc # tc /\ sc # -1 /\ tc # -1
               /\ \/ e.source = id /\ tc = c
                  \/ e.target = id /\ sc = c}

\* The candidates' scores as a list in ascending order
RECURSIVE SortedScores(_, _, _)
SortedScores(nodes, edges, C) ==
    IF C = {} THEN << >>
    ELSE The({<<Cardinality(BridgeScores(nodes, edges, m))>>
                    \o SortedScores(nodes, edges, C \ {m}) :
                m \in {CHOOSE x \in C : \A y \in C :
                         Cardinality(BridgeScores(nodes, edges, x))
                             <= Cardinality(BridgeScores(nodes, edges, y))}})

\* A variant that takes the lowest value whatever q is
PercentileLowest(sorted, q) == sorted[1]

\* int(np.percentile(values, q)) for a list of naturals given in sorted order,
\* q in hundredths of a percent point position (linear interpolation)
PercentileInt(sorted, q) ==
    LET n   == Len(sorted)
        pos == q * (n - 1)
        lo  == pos \div 100
        rem == pos % 100
        hi  == IF lo + 2 <= n THEN lo + 2 ELSE n
    IN sorted[lo + 1] + (rem * (sorted[hi] - sorted[lo + 1])) \div 100

\* detect_bridge_nodes with top_percentile = 0.05
DetectBridgeNodes(nodes, edges) ==
    IF nodes = << >> \/ edges = << >> THEN {}
    ELSE LET ids        == {nodes[i].id : i \in 1..Len(nodes)} \cup
                           {e.source : e \in Range(edges)} \cup {e.target : e \in Range(edges)}
             score(id)  == Cardinality(BridgeScores(nodes, edges, id))
             candidates == {id \in ids : score(id) >= 2}
             values     == SortedScores(nodes, edges, candidates)
         IN IF candidates = {} THEN {}
            ELSE LET p == PercentileInt(values, 95)
                     threshold == IF p > 2 THEN p ELSE 2
                 IN {id \in candidates : score(id) >= threshold}

(***************************************************************************)
(* graph/clusterer.py: label_clusters (topics and colours left out)        *)
(***************************************************************************)
RECURSIVE SortedInts(_)
SortedInts(B) ==
    IF B = {} THEN << >>
    ELSE The({<<m>> \o SortedInts(B \ {m}) : m \in {CHOOSE x \in B : \A y \in B : x <= y}})

\* cluster_info, one entry per label in sorted(set(cluster_labels)); a paper
\* of the model carries no topic, so a cluster's label is "Cluster <n>"
LabelClusters(cluster_labels) ==
    LET unique_labels == SortedInts(Range(cluster_labels))
    IN [n \in 1..Len(unique_labels) |->
          LET label == unique_labels[n]
          IN [k |-> label,
              v |-> [label       |-> IF label = -1 THEN <<"Unclustered">>
                                     ELSE <<"Cluster", label>>,
                     paper_count |-> Cardinality({i \in 1..Len(cluster_labels) :
                                                    cluster_labels[i] = label})]]]

(***************************************************************************)
(* graph/gap_detector.py: detect_gaps (bridge papers, potential edges and  *)
(* labels left out). A gap strength is kept in ten-thousandths, the unit   *)
(* round(x, 4) leaves.                                                     *)
(***************************************************************************)
\* paper_cluster.get(str(id), -1): the last paper with that id decides
PaperCluster(papers, id) ==
    LET hits == {i \in 1..Len(papers) : papers[i].id = id}
    IN IF hits = {} THEN -1 ELSE papers[SetMax(hits)].cluster_id

\* _pair_key
PairKey(a, b) == IF a <= b THEN <<a, b>> ELSE <<b, a>>

\* _compute_connectivity: connectivity.get(pair, 0)
ComputeConnectivity(edges, papers, pair) ==
    Cardinality({k \in 1..Len(edges) :
        LET src_cluster == PaperCluster(papers, edges[k].source)
            tgt_cluster == PaperCluster(papers, edges[k].target)
        IN /\ src_cluster # -1 /\ tgt_cluster # -1
           /\ src_cluster # tgt_cluster
           /\ PairKey(src_cluster, tgt_cluster) = pair})

\* len(cluster_papers.get(cid, []))
ClusterSize(papers, cid) ==
    Cardinality({i \in 1..Len(papers) : papers[i].cluster_id = cid /\ cid # -1})

\* round(x, 4) of the fraction num / den, in ten-thousandths (no fraction of
\* the model falls halfway between two of them)
Round4(num, den) == (20000 * num + den) \div (2 * den)

\* gap_strength = round(1.0 - actual_edges / max_possible, 4)
GapStrength(actual_edges, max_possible) ==
    Round4(max_possible - actual_edges, max_possible)

\* itertools.combinations(valid_clusters, 2), in order
RECURSIVE Combinations2(_, _, _)
Combinations2(xs, i, j) ==
    IF i >= Len(xs) THEN << >>
    ELSE IF j > Len(xs) THEN Combinations2(xs, i + 1, i + 2)
    ELSE <<<<xs[i], xs[j]>>>> \o Combinations2(xs, i, j + 1)

\* The loop over the cluster pairs: one gap per pair of non-empty clusters
RECURSIVE GapsOf(_, _, _, _)
GapsOf(papers, edges, pairs, n) ==
    IF n > Len(pairs) THEN << >>
    ELSE LET cid_a  == pairs[n][1].id
             cid_b  == pairs[n][2].id
             size_a == ClusterSize(papers, cid_a)
             size_b == ClusterSize(papers, cid_b)
             gap    == [cluster_a    |-> [id |-> cid_a, paper_count |-> size_a],
                        cluster_b    |-> [id |-> cid_b, paper_count |-> size_b],
                        gap_strength |-> GapStrength(
                            ComputeConnectivity(edges, papers, PairKey(cid_a, cid_b)),
                            size_a * size_b)]
         IN (IF size_a = 0 \/ size_b = 0 THEN << >> ELSE <<gap>>)
                \o GapsOf(papers, edges, pairs, n + 1)

\* A variant of the threshold that is 0.7 whatever the gaps are
AdaptiveThresholdFixed(gaps) == 7000

\* _adaptive_threshold: min(0.7, sorted(strengths)[idx] + 0.1), in
\* ten-thousandths, with idx = max(0, int(n * 0.25) - 1)
AdaptiveThreshold(gaps) ==
    IF gaps = << >> THEN 7000
    ELSE LET n    == Len(gaps)
             q    == (n * 25) \div 100
             idx  == IF q - 1 > 0 THEN q - 1 ELSE 0
             low  == CHOOSE v \in {gaps[k].gap_strength : k \in 1..n} :
                        /\ Cardinality({k \in 1..n : gaps[k].gap_strength < v}) <= idx
                        /\ idx < Cardinality({k \in 1..n : gaps[k].gap_strength <= v})
         IN IF low + 1000 < 7000 THEN low + 1000 ELSE 7000

\* significant_gaps.sort(key=gap_strength, reverse=True): stable
RECURSIVE InsertGap(_, _)
InsertGap(sorted, g) ==
    IF sorted = << >> THEN <<g>>
    ELSE IF g.gap_strength > Head(sorted).gap_strength THEN <<g>> \o sorted
    ELSE <<Head(sorted)>> \o InsertGap(Tail(sorted), g)

RECURSIVE SortGaps(_, _)
SortGaps(gaps, n) ==
    IF n = 0 THEN << >>
    ELSE The({InsertGap(sorted, gaps[n]) : sorted \in {SortGaps(gaps, n - 1)}})

NoGaps == [gaps |-> << >>, total_gaps |-> 0]

\* GapDetector.detect_gaps
DetectGaps(papers, clusters, edges) ==
    IF papers = << >> \/ clusters = << >> \/ Len(clusters) < 2 THEN NoGaps
    ELSE The({
           IF Len(valid_clusters) < 2 THEN NoGaps
           ELSE The({The({[gaps           |-> significant_gaps,
                           total_gaps     |-> Len(significant_gaps),
                           threshold_used |-> AdaptiveThreshold(gaps)] :
                  significant_gaps \in {The({SortGaps(kept, Len(kept)) :
                      kept \in {SelectSeq(gaps,
                                  LAMBDA g : g.gap_strength >= AdaptiveThreshold(gaps))}})}}) :
                  gaps \in {GapsOf(papers, edges, Combinations2(valid_clusters, 1, 2), 1)}}) :
           valid_clusters \in {SelectSeq(clusters, LAMBDA c : c.id # -1)}})

(***************************************************************************)
(* routers/search.py: helpers                                              *)
(***************************************************************************)
\* The order of field names under sorted()
FieldRank(f) ==
    CASE f = "Biology" -> 1 [] f = "Computer Science" -> 2 [] f = "Medicine" -> 3
      [] OTHER -> 4

RECURSIVE InsertField(_, _)
InsertField(sorted, f) ==
    IF sorted = << >> THEN <<f>>
    ELSE IF FieldRank(f) < FieldRank(Head(sorted)) THEN <<f>> \o sorted
    ELSE <<Head(sorted)>> \o InsertField(Tail(sorted), f)

RECURSIVE SortFields(_, _)
SortFields(fields, n) ==
    IF n = 0 THEN << >>
    ELSE The({InsertField(sorted, fields[n]) : sorted \in {SortFields(fields, n - 1)}})

\* _cache_key with the field filters taken in the order given
CacheKeyUnsorted(query, limit, year_range, fields) ==
    [query      |-> StrStrip(StrLower(query)),
     limit      |-> limit,
     year_range |-> year_range,
     fields     |-> IF Truthy(fields) THEN fields ELSE None]

\* _cache_key: the sha256 of the JSON of key_data, taken as injective and so
\* modelled by key_data itself
CacheKey(query, limit, year_range, fields) ==
    [query      |-> StrStrip(StrLower(query)),
     limit      |-> limit,
     year_range |-> year_range,
     fields     |-> IF Truthy(fields) THEN SortFields(fields, Len(fields)) ELSE None]

\* search_papers: year_range from year_start and year_end; a year left out
\* (None) is written 0, which `if request.year_start` treats alike
YearRange(year_start, year_end) ==
    IF year_start # 0 /\ year_end # 0 THEN <<year_start, year_end>>
    ELSE IF year_start # 0 THEN <<year_start, 2030>>
    ELSE IF year_end # 0 THEN <<1900, year_end>>
    ELSE None

\* SearchRequest.limit default
DefaultLimit == 200

\* compute_edges' default max_edges_per_node, which search_papers does not override
DefaultMaxEdges == 10

\* nodes_with_s2[:20]
EnrichBatchSize == 20

\* INTERVAL '24 hours'
CacheTtlHours == 24

\* GraphNode for a paper (coordinates left out)
MakeNode(id, paper, cluster_id, cluster_label) ==
    [id             |-> id,
     title          |-> paper.title,
     doi            |-> paper.doi,
     citation_count |-> paper.citation_count,
     s2_paper_id    |-> paper.s2_paper_id,
     oa_work_id     |-> paper.oa_work_id,
     cluster_id     |-> cluster_id,
     cluster_label  |-> cluster_label,
     is_bridge      |-> FALSE]

\* GraphEdge for a similarity edge, with the heuristic intent
SimilarityEdge(edge) ==
    [source |-> edge.source,
     target |-> edge.target,
     type   |-> "similarity",
     weight |-> edge.similarity,
     intent |-> IF edge.similarity >= 85 THEN "supports" ELSE "background"]

\* GraphEdge appended by the enrichment task
CitationEdge(source, target) ==
    [source |-> source,
     target |-> target,
     type   |-> "citation",
     weight |-> 80,
     intent |-> "background"]

\* s2_to_node_id: s2_paper_id -> node id over the nodes that have one
RECURSIVE S2ToNodeId(_, _)
S2ToNodeId(nodes, i) ==
    IF i = 0 THEN << >>
    ELSE LET d == S2ToNodeId(nodes, i - 1)
         IN IF Truthy(nodes[i].s2_paper_id)
            THEN DictSet(d, nodes[i].s2_paper_id, nodes[i].id)
            ELSE d

\* the meta fields shared by the response and the task's meta_base
MetaBase(query, nodes, with_embeddings, clusters_info, edges, bridge_ids) ==
    [query            |-> query,
     total            |-> Len(nodes),
     with_embeddings  |-> with_embeddings,
     clusters         |-> Cardinality({i \in 1..Len(clusters_info) : clusters_info[i].id # -1}),
     similarity_edges |-> Cardinality({i \in 1..Len(edges) : edges[i].type = "similarity"}),
     bridge_nodes     |-> Cardinality(bridge_ids)]

\* the response's meta (elapsed_seconds is a wall-clock reading, left at 0)
ResponseMeta(query, nodes, with_embeddings, clusters_info, edges, bridge_ids) ==
    [citation_edges |-> 0, citation_enriched |-> FALSE, elapsed_seconds |-> 0]
        @@ MetaBase(query, nodes, with_embeddings, clusters_info, edges, bridge_ids)

\* meta of the early return for an empty result
EmptyMeta(query) == [query |-> query, total |-> 0]

\* search_papers from "papers_with_embeddings = ..." to "meta = {...}": the
\* handler's locals, and what it hands to the enrichment task when it spawns
\* one. cluster_labels is PaperClusterer.cluster's answer (external). The
\* locals are bound innermost last: with, without; then embeddings, paper_ids,
\* cluster_meta; then sim_edges, nodes0; then bridge_ids; then the rest.
BuildGraph(query, papers, cluster_labels, similarity_threshold) ==
    The({
      IF Len(with) >= 2
      THEN
        The({The({The({The({The({
          [nodes         |-> nodes,
           edges         |-> edges,
           clusters_info |-> clusters,
           meta          |-> ResponseMeta(query, nodes, Len(with), clusters, edges, bridge_ids),
           spawn         |-> Len(s2_to_node) >= 2,
           \* the arguments of _enrich_citations_background at create_task
           task_nodes    |-> nodes1,
           s2_to_node_id |-> s2_to_node,
           meta_base     |-> MetaBase(query, nodes1, Len(with), clusters, edges, bridge_ids)] :
            s2_to_node \in {S2ToNodeId(nodes1, Len(nodes1))},
            nodes      \in {nodes1 \o periphery}}) :
            nodes1     \in {[i \in 1..Len(nodes0) |->
                              [nodes0[i] EXCEPT !.is_bridge = (nodes0[i].id \in bridge_ids)]]},
            edges      \in {[i \in 1..Len(sim_edges) |-> SimilarityEdge(sim_edges[i])]},
            clusters   \in {[i \in 1..Len(cluster_meta) |->
                              [id          |-> cluster_meta[i].k,
                               label       |-> cluster_meta[i].v.label,
                               paper_count |-> cluster_meta[i].v.paper_count]]},
            periphery  \in {[i \in 1..Len(without) |->
                              MakeNode(Len(with) + i - 1, without[i], -1, <<"Unclustered">>)]}}) :
            bridge_ids \in {DetectBridgeNodes(nodes0, sim_edges)}}) :
            sim_edges  \in {ComputeEdges(embeddings, paper_ids,
                                         similarity_threshold, DefaultMaxEdges)},
            nodes0     \in {[i \in 1..Len(with) |->
                              MakeNode(paper_ids[i], with[i], cluster_labels[i],
                                  IF DictHas(cluster_meta, cluster_labels[i])
                                  THEN DictGet(cluster_meta, cluster_labels[i]).label
                                  ELSE << >>)]}}) :
            embeddings   \in {[i \in 1..Len(with) |-> with[i].embedding]},
            paper_ids    \in {[i \in 1..Len(with) |-> i - 1]},
            cluster_meta \in {LabelClusters(cluster_labels)}})
      ELSE
        The({[nodes         |-> nodes,
              edges         |-> << >>,
              clusters_info |-> << >>,
              meta          |-> ResponseMeta(query, nodes, Len(with), << >>, << >>, {}),
              spawn         |-> FALSE,
              task_nodes    |-> << >>,
              s2_to_node_id |-> << >>,
              meta_base     |-> EmptyMeta(query)] :
            nodes \in {[i \in 1..Len(papers) |-> MakeNode(i - 1, papers[i], 0, << >>)]}}) :
        with    \in {SelectSeq(papers, LAMBDA p : p.embedding # NoEmbedding)},
        without \in {SelectSeq(papers, LAMBDA p : p.embedding = NoEmbedding)}})

(***************************************************************************)
(* routers/search.py: _enrich_citations_background, the pure parts         *)
(***************************************************************************)
\* A variant that hands over the list itself, not a copy
ListCopyAlias(heap, src, dst) == [ref |-> src, heap |-> heap]

\* list(x) at create_task: a new list object dst holding src's elements
ListCopy(heap, src, dst) == [ref |-> dst, heap |-> [heap EXCEPT ![dst] = heap[src]]]

\* nodes_with_s2.sort(key=citation_count, reverse=True): stable
RECURSIVE InsertByCitations(_, _)
InsertByCitations(sorted, x) ==
    IF sorted = << >> THEN <<x>>
    ELSE IF x.citation_count > Head(sorted).citation_count THEN <<x>> \o sorted
    ELSE <<Head(sorted)>> \o InsertByCitations(Tail(sorted), x)

RECURSIVE SortByCitations(_, _)
SortByCitations(nodes, n) ==
    IF n = 0 THEN << >>
    ELSE The({InsertByCitations(sorted, nodes[n]) : sorted \in {SortByCitations(nodes, n - 1)}})

\* batch_s2_ids: the s2 ids of the 20 most cited nodes that have one
BatchS2Ids(nodes) ==
    The({The({LET top == SubSeq(sorted, 1, IF EnrichBatchSize < Len(sorted)
                                           THEN EnrichBatchSize ELSE Len(sorted))
              IN [i \in 1..Len(top) |-> top[i].s2_paper_id] :
                sorted \in {SortByCitations(nodes_with_s2, Len(nodes_with_s2))}}) :
           nodes_with_s2 \in {SelectSeq(nodes, LAMBDA n : Truthy(n.s2_paper_id))}})

\* "if edge_key not in existing_edge_keys and reverse_key not in existing_edge_keys"
CitationAllowed(edge_key, reverse_key, existing_edge_keys) ==
    edge_key \notin existing_edge_keys /\ reverse_key \notin existing_edge_keys

\* "for ref_paper in refs" on st = [edges, existing_edge_keys, added]
RECURSIVE ProcessRefs(_, _, _, _, _)
ProcessRefs(refs, n, source_node_id, s2_to_node_id, st) ==
    IF n > Len(refs) THEN st
    ELSE LET in_set  == DictHas(s2_to_node_id, refs[n])
             target  == DictGet(s2_to_node_id, refs[n])
             edge_key    == <<source_node_id, target>>
             reverse_key == <<target, source_node_id>>
             st2 == IF in_set /\ CitationAllowed(edge_key, reverse_key, st.existing_edge_keys)
                    THEN [edges              |-> Append(st.edges, CitationEdge(source_node_id, target)),
                          existing_edge_keys |-> st.existing_edge_keys \cup {edge_key},
                          added              |-> st.added + 1]
                    ELSE st
         IN The({ProcessRefs(refs, n + 1, source_node_id, s2_to_node_id, st3) : st3 \in {st2}})

\* A variant of the rewrite guard that does not look at the count
ShouldRewriteAnyCount(db_is_connected, citation_edges_added) ==
    db_is_connected

\* "if db.is_connected and citation_edges_added > 0"
ShouldRewrite(db_is_connected, citation_edges_added) ==
    db_is_connected /\ citation_edges_added > 0

\* meta_updated
MetaUpdated(meta_base, citation_edges_added) ==
    [citation_edges |-> citation_edges_added, citation_enriched |-> TRUE] @@ meta_base

(***************************************************************************)
(* Table search_cache                                                      *)
(***************************************************************************)
\* SELECT ... WHERE cache_key = $1 AND created_at > NOW() - INTERVAL '24 hours'
FetchFresh(table, key, clock) ==
    key \in DOMAIN table /\ table[key].created_at > clock - CacheTtlHours

\* json.dumps(v): a str, the JSON text of v; kind is the Python type of v
JsonDumps(kind, v) == [kind |-> kind, body |-> v]

\* json.loads(text): the value the text denotes, with its Python type
JsonLoads(text) == [kind |-> text.kind, value |-> text.body]

\* The jsonb codec of every pooled connection: a query argument bound to a
\* $n::jsonb parameter goes through the encoder, a jsonb column read goes
\* through the decoder.
JsonbEncoder(kind, v) == JsonDumps(kind, v)

JsonbDecoder(text) == JsonLoads(text)

\* The row an INSERT of search_papers or of the enrichment task carries: each
\* argument is json.dumps(...) of the list (or dict), a str, and as a jsonb
\* parameter it is encoded by the codec; created_at is NOW().
Row(nodes, edges, clusters, m, clock) ==
    [nodes      |-> JsonbEncoder("str", JsonDumps("list", nodes)),
     edges      |-> JsonbEncoder("str", JsonDumps("list", edges)),
     clusters   |-> JsonbEncoder("str", JsonDumps("list", clusters)),
     meta       |-> JsonbEncoder("str", JsonDumps("dict", m)),
     created_at |-> clock]

\* The record fetchrow returns for a row: every jsonb column decoded
Fetched(row) ==
    [nodes    |-> JsonbDecoder(row.nodes),
     edges    |-> JsonbDecoder(row.edges),
     clusters |-> JsonbDecoder(row.clusters),
     meta     |-> JsonbDecoder(row.meta)]

\* Whether GraphResponse(nodes=[GraphNode(**n) for n in cached["nodes"]], ...)
\* can be built: iterating a str gives its characters, and GraphNode(**n)
\* with n a character raises TypeError; meta must be a dict.
Readable(cached) ==
    /\ cached.nodes.kind = "list"
    /\ cached.edges.kind = "list"
    /\ cached.clusters.kind = "list"
    /\ cached.meta.kind = "dict"

\* The request path's INSERT ... ON CONFLICT (cache_key) DO UPDATE SET
\* nodes, edges, clusters, meta, created_at
UpsertAll(table, key, row) ==
    IF key \in DOMAIN table THEN [table EXCEPT ![key] = row] ELSE (key :> row) @@ table

\* The enrichment task's INSERT ... ON CONFLICT (cache_key) DO UPDATE SET
\* edges, meta, created_at
UpsertEdgesMeta(table, key, row) ==
    IF key \in DOMAIN table
    THEN [table EXCEPT ![key].edges = row.edges,
                       ![key].meta = row.meta,
                       ![key].created_at = row.created_at]
    ELSE (key :> row) @@ table

(***************************************************************************)
(* graph/trend_analyzer.py.  A paper is [id, year, citation_count,         *)
(* cluster_id]; the year None is written 0, which `if p.get("year")` and    *)
(* `if year` treat alike.  Ratios are kept in ten-thousandths (round(x, 4)) *)
(***************************************************************************)
\* list.sort(key=...) and sorted(key=...): ascending and stable, keys[k] being
\* the key of s[k]; with reverse=True the keys are negated, which keeps equal
\* elements in their order too
SortedBy(s, keys) ==
    [p \in 1..Len(s) |->
        s[CHOOSE k \in 1..Len(s) :
            Cardinality({j \in 1..Len(s) :
                \/ keys[j] < keys[k]
                \/ keys[j] = keys[k] /\ j < k}) = p - 1]]

\* _classify with the sustained-presence rule tried before the declining rule
ClassifyStableFirst(first_seen, last_seen, paper_count, year_span, global_max_year) ==
    IF first_seen >= global_max_year - 2 /\ paper_count >= 2 THEN "emerging"
    ELSE IF paper_count >= 3 /\ year_span >= 3 THEN "stable"
    ELSE IF last_seen <= global_max_year - 3 THEN "declining"
    ELSE "stable"

\* TrendAnalyzer._classify
Classify(first_seen, last_seen, paper_count, year_span, global_max_year) ==
    IF first_seen >= global_max_year - 2 /\ paper_count >= 2 THEN "emerging"
    ELSE IF last_seen <= global_max_year - 3 THEN "declining"
    ELSE IF paper_count >= 3 /\ year_span >= 3 THEN "stable"
    ELSE "stable"

\* TrendAnalyzer._analyze_cluster, with _get_representative_papers
AnalyzeCluster(cluster_id, papers, global_max_year) ==
    LET by_citations   == SortedBy(papers, [k \in 1..Len(papers) |-> 0 - papers[k].citation_count])
        representative == [k \in 1..(IF Len(papers) < 3 THEN Len(papers) ELSE 3) |->
                              by_citations[k].id]
        year_counts    == {papers[k].year : k \in {j \in 1..Len(papers) : papers[j].year # 0}}
        Count(Test(_)) == Cardinality({k \in 1..Len(papers) :
                              papers[k].year # 0 /\ Test(papers[k].year)})
    IN IF year_counts = {}
       THEN [cluster_id |-> cluster_id, classification |-> "stable",
             paper_count |-> Len(papers), year_range |-> <<0, 0>>,
             trend_strength |-> 0, velocity |-> 0,
             representative_papers |-> representative]
       ELSE LET first_seen   == CHOOSE y \in year_counts : \A z \in year_counts : y <= z
                last_seen    == SetMax(year_counts)
                year_span    == last_seen - first_seen + 1
                total_count  == Count(LAMBDA y : TRUE)
                recent_count == Count(LAMBDA y : y >= global_max_year - 1)
                old_count    == Count(LAMBDA y : y <= first_seen + 1)
                span         == IF year_span > 1 THEN year_span ELSE 1
            IN [cluster_id |-> cluster_id,
                classification |-> Classify(first_seen, last_seen, total_count,
                                            year_span, global_max_year),
                paper_count |-> total_count,
                year_range |-> <<first_seen, last_seen>>,
                trend_strength |-> Round4(recent_count, total_count),
                velocity |-> IF recent_count >= old_count
                             THEN Round4(recent_count - old_count, span)
                             ELSE 0 - Round4(old_count - recent_count, span),
                representative_papers |-> representative]

\* TrendAnalyzer.analyze_trends
AnalyzeTrends(papers, clusters) ==
    LET years  == {papers[k].year : k \in {j \in 1..Len(papers) : papers[j].year # 0}}
        listed == SelectSeq(clusters, LAMBDA c :
                      c.id # -1 /\ \E k \in 1..Len(papers) : papers[k].cluster_id = c.id)
        trends == [n \in 1..Len(listed) |->
                      AnalyzeCluster(listed[n].id,
                          SelectSeq(papers, LAMBDA p : p.cluster_id = listed[n].id),
                          SetMax(years))]
        Of(ts, class) == SelectSeq(ts, LAMBDA t : t.classification = class)
    IN IF papers = << >> \/ clusters = << >>
       THEN [emerging |-> << >>, stable |-> << >>, declining |-> << >>,
             summary |-> [total_papers |-> 0, year_range |-> << >>, cluster_count |-> 0]]
       ELSE IF years = {}
       THEN [emerging |-> << >>, stable |-> << >>, declining |-> << >>,
             summary |-> [total_papers |-> Len(papers), year_range |-> << >>,
                          cluster_count |-> Len(clusters)]]
       ELSE The({[emerging  |-> SortedBy(Of(ts, "emerging"),
                                [k \in 1..Len(Of(ts, "emerging")) |->
                                    0 - Of(ts, "emerging")[k].trend_strength]),
                  stable    |-> SortedBy(Of(ts, "stable"),
                                [k \in 1..Len(Of(ts, "stable")) |->
                                    0 - Of(ts, "stable")[k].paper_count]),
                  declining |-> SortedBy(Of(ts, "declining"),
                                [k \in 1..Len(Of(ts, "declining")) |->
                                    Of(ts, "declining")[k].velocity]),
                  summary   |-> [total_papers |-> Len(papers),
                                 year_range |-> <<CHOOSE y \in years : \A z \in years : y <= z,
                                                  SetMax(years)>>,
                                 cluster_count |-> Len(SelectSeq(clusters, LAMBDA c : c.id # -1)),
                                 emerging_count |-> Len(Of(ts, "emerging")),
                                 stable_count |-> Len(Of(ts, "stable")),
                                 declining_count |-> Len(Of(ts, "declining"))]] :
                 ts \in {trends}})

(***************************************************************************)
(* graph/incremental_layout.py: assign_cluster.  cluster_centroids is a    *)
(* dict, a sequence of [k, v] entries; similarities are in hundredths      *)
(***************************************************************************)
\* The loop over cluster_centroids.items(), after its first n entries
RECURSIVE AssignLoop(_, _, _)
AssignLoop(new_embedding, cluster_centroids, n) ==
    IF n = 0 THEN [best_cluster |-> -1, best_sim |-> -100]
    ELSE The({
           IF Dot(cluster_centroids[n].v, cluster_centroids[n].v) = 0 THEN best
           ELSE The({IF sim > best.best_sim
                     THEN [best_cluster |-> cluster_centroids[n].k, best_sim |-> sim]
                     ELSE best :
                  sim \in {(100 * Dot(new_embedding, cluster_centroids[n].v))
                              \div (Norm(new_embedding) * Norm(cluster_centroids[n].v))}}) :
           best \in {AssignLoop(new_embedding, cluster_centroids, n - 1)}})

\* assign_cluster
AssignCluster(new_embedding, cluster_centroids, threshold) ==
    IF cluster_centroids = << >> THEN -1
    ELSE IF Dot(new_embedding, new_embedding) = 0 THEN -1
    ELSE The({IF best.best_sim >= threshold THEN best.best_cluster ELSE -1 :
              best \in {AssignLoop(new_embedding, cluster_centroids,
                                   Len(cluster_centroids))}})

(***************************************************************************)
(* integrations/semantic_scholar.py and integrations/openalex.py: _request. *)
(* st = [attempt, answers, outcome]: the loop index, the upstream answers   *)
(* of the attempts made, and how the call ended ("pending" while it runs).  *)
(* An answer is a status and its Retry-After; status 0 is no response       *)
(* (httpx.RequestError: a timeout, a refused connection).                   *)
(***************************************************************************)
\* SemanticScholarClient._request: one turn of "for attempt in range(max_retries)",
\* and the raise after the loop
S2Request(st, max_retries, answer) ==
    IF st.attempt >= max_retries
    THEN [st EXCEPT !.outcome = "SemanticScholarRateLimitError"]
    ELSE LET last == st.attempt = max_retries - 1
             made == [st EXCEPT !.answers = Append(@, answer)]
             next == [made EXCEPT !.attempt = @ + 1]
         IN IF answer.status = 429
            THEN IF answer.retry_after > 5 \/ last
                 THEN [made EXCEPT !.outcome = "SemanticScholarRateLimitError"]
                 ELSE next
            ELSE IF answer.status = 0
            THEN IF last THEN [made EXCEPT !.outcome = "RequestError"] ELSE next
            ELSE IF answer.status >= 400
            THEN IF answer.status < 500 \/ last
                 THEN [made EXCEPT !.outcome = "HTTPStatusError"]
                 ELSE next
            ELSE [made EXCEPT !.outcome = "json"]

\* OpenAlexClient._request: one turn of the loop, and "return {}" after it
OaRequest(st, max_retries, answer) ==
    IF st.attempt >= max_retries
    THEN [st EXCEPT !.outcome = "empty"]
    ELSE LET last == st.attempt = max_retries - 1
             made == [st EXCEPT !.answers = Append(@, answer)]
             next == [made EXCEPT !.attempt = @ + 1]
         IN IF answer.status = 429
            THEN IF last THEN [made EXCEPT !.outcome = "empty"] ELSE next
            ELSE IF answer.status = 0
            THEN IF last THEN [made EXCEPT !.outcome = "RequestError"] ELSE next
            ELSE IF answer.status >= 400
            THEN IF last THEN [made EXCEPT !.outcome = "HTTPStatusError"] ELSE next
            ELSE [made EXCEPT !.outcome = "json"]

(***************************************************************************)
(* Bounds and the inputs drawn within them                                 *)
(***************************************************************************)
MaxOa == 2          \* longest provider-A list given to _merge_results alone
MaxS2 == 2          \* longest provider-B list given to _merge_results alone
MaxPapers == 3      \* most embeddings given to compute_edges alone
MaxDegree == 2      \* largest max_edges_per_node given to compute_edges alone
MaxRefs == 2        \* longest reference list get_references answers with
MaxGapPapers == 3   \* most papers given to detect_gaps alone
MaxGapEdges == 5    \* most edges given to detect_gaps alone
MaxBridgeNodes == 4 \* most nodes given to detect_bridge_nodes alone
MaxLimit == 3       \* largest limit given to DataFusionService.search alone
MaxRankedOa == 4    \* longest provider-A list of the ranking runs
MaxRankedS2 == 2    \* longest provider-B list of the ranking runs
MaxTrendPapers == 4 \* most papers given to analyze_trends alone
MaxYear == 6        \* latest year of a paper given to analyze_trends, counted from year 1
MaxCentroids == 2   \* most centroids given to assign_cluster alone
MaxRetries == 3     \* largest max_retries given to a provider client
TickHours == 13     \* how far one Tick moves the clock
MaxTime == 26       \* the clock stops here

\* primary_location with a source that has a display_name
Location(name) == <<[k |-> "source", v |-> <<[k |-> "display_name", v |-> name]>>]>>

W1 == [id |-> <<"W1">>, doi |-> <<"HTTPS://DOI.ORG/", "10.1/X">>, title |-> <<"Alpha">>,
       abstract |-> <<"abstract W1">>, citation_count |-> 5,
       primary_location |-> Location(<<"Journal A">>), topics |-> <<"T1">>]
W2 == [id |-> <<"W2">>, doi |-> <<"10.1/x">>, title |-> <<"Delta">>,
       abstract |-> None, citation_count |-> 4,
       primary_location |-> NoneDict, topics |-> << >>]
W3 == [id |-> <<"W3">>, doi |-> None, title |-> <<" ", "alpha", " ">>,
       abstract |-> None, citation_count |-> 1,
       primary_location |-> <<[k |-> "source", v |-> NoneDict]>>, topics |-> << >>]
W4 == [id |-> <<"W4">>, doi |-> <<"10.2/y">>, title |-> <<"Gamma">>,
       abstract |-> << >>, citation_count |-> 2,
       primary_location |-> Location(<<"Journal B">>), topics |-> <<"T2">>]
W5 == [id |-> <<"W5">>, doi |-> None, title |-> <<"Beta">>,
       abstract |-> None, citation_count |-> 3,
       primary_location |-> <<[k |-> "source", v |-> << >>]>>, topics |-> <<"T1", "T2">>]

P1 == [paper_id |-> <<"P1">>, doi |-> <<"10.1/x">>, title |-> <<"Alpha">>,
       abstract |-> None, tldr |-> <<"tldr P1">>, embedding |-> <<1, 0>>,
       citation_count |-> 7, venue |-> <<"Venue P1">>]
P2 == [paper_id |-> <<"P2">>, doi |-> None, title |-> <<"beta">>,
       abstract |-> <<"abstract P2">>, tldr |-> None, embedding |-> <<0, 1>>,
       citation_count |-> 4, venue |-> None]
P3 == [paper_id |-> <<"P3">>, doi |-> <<"doi:", "10.2/Y">>, title |-> <<"Alpha">>,
       abstract |-> None, tldr |-> None, embedding |-> NoEmbedding,
       citation_count |-> 0, venue |-> <<"Venue P3">>]
P4 == [paper_id |-> <<"P4">>, doi |-> <<" ", "10.1/X">>, title |-> <<"Delta">>,
       abstract |-> None, tldr |-> <<"tldr P4">>, embedding |-> <<3, 4>>,
       citation_count |-> 9, venue |-> None]
P5 == [paper_id |-> <<"P5">>, doi |-> <<"10.3/z">>, title |-> << >>,
       abstract |-> None, tldr |-> None, embedding |-> <<4, 3>>,
       citation_count |-> 1, venue |-> None]

OaPool == {W1, W2, W3, W4, W5}
RankedOaPool == {W1, W2, W5}
RankedS2Pool == {P1, P2}
S2Pool == {P1, P2, P3, P4, P5}

VectorPool == {<<0, 0>>, <<1, 0>>, <<0, 1>>, <<3, 4>>, <<4, 3>>, <<-1, 0>>}
ThresholdPool == {-100, 0, 70}

\* What the two providers hold for the query of the requests
OaCatalog == <<W1, W5, W4>>
S2Catalog == <<P1, P2>>
Failed == [ok |-> FALSE, results |-> << >>]
Answer(results) == [ok |-> TRUE, results |-> results]
OaAnswers == {Failed, Answer(OaCatalog)}
S2Answers == {Failed, Answer(<< >>), Answer(S2Catalog)}

\* get_references answers: a failure, or a list of cited paper ids, which may
\* name papers outside the result set, the citing paper itself, or one paper twice
RefIds == {<<"P1">>, <<"P2">>, <<"P9">>}
RefAnswers == {Failed} \cup {Answer(l) : l \in SeqsUpTo(RefIds, MaxRefs)}
\* the same, with at most one cited paper and none outside the result set
FewRefAnswers == {Failed, Answer(<< >>), Answer(<<<<"P1">>>>), Answer(<<<<"P2">>>>)}

Requests == {"r1", "r2"}
Queries == {<<"Alpha">>}
\* Requests are named in their order of arrival
Arrived(r) == r = "r1" \/ pc["r1"] # "idle"
\* PaperClusterer.cluster's answers: one label for all the papers
ClusterAnswers(n) == {[i \in 1..n |-> c] : c \in env.cluster_ids}
Thresholds == {0, 70}
ClusterIds == {-1, 0}

\* Two callers of the same query with the default threshold, against an
\* upstream that answers get_references with at most one cited paper
TwoCallers ==
    [requests    |-> {"r1", "r2"},
     thresholds  |-> {70},
     cluster_ids |-> {0},
     ref_answers |-> FewRefAnswers]

\* One caller, any threshold, any clustering, any reference list
OneCaller ==
    [requests    |-> {"r1"},
     thresholds  |-> Thresholds,
     cluster_ids |-> ClusterIds,
     ref_answers |-> RefAnswers]

Kinds == {"nodes", "edges", "clusters"}
Obj(r, kind, owner) == <<r, kind, owner>>
Objects == {Obj(r, kind, owner) : r \in Requests, kind \in Kinds, owner \in {"handler", "task"}}

NoRequest == [query |-> None, similarity_threshold |-> 0, cache_hash |-> None]
NoRaw == [oa |-> Failed, s2 |-> Failed]
NoArgs == [nodes |-> None, edges |-> None, clusters_info |-> None,
           s2_to_node_id |-> << >>, cache_hash |-> None, meta_base |-> EmptyMeta(None)]
NoLocals == [existing_edge_keys |-> {}, batch_s2_ids |-> << >>, idx |-> 0,
             citation_edges_added |-> 0, failed_count |-> 0]

(***************************************************************************)
(* Initial states                                                          *)
(***************************************************************************)
FusionIdle == fOa = << >> /\ fS2 = << >> /\ fOut = << >> /\ fPc = "idle" /\ fLimit = 0

CallIdle == callFn = "none" /\ callArgs = << >> /\ callOut = << >> /\ callPc = "idle"

SimIdle == sEmb = << >> /\ sIds = << >> /\ sThr = 0 /\ sMax = 0 /\ sOut = << >> /\ sPc = "idle"

OrchStart ==
    /\ now = 0
    /\ cache = << >>
    /\ pc = [r \in Requests |-> "idle"]
    /\ request = [r \in Requests |-> NoRequest]
    /\ lookup = [r \in Requests |-> "none"]
    /\ provRaw = [r \in Requests |-> NoRaw]
    /\ fused = [r \in Requests |-> << >>]
    /\ respMeta = [r \in Requests |-> EmptyMeta(None)]
    /\ lists = [o \in Objects |-> << >>]
    /\ tpc = [r \in Requests |-> "none"]
    /\ targs = [r \in Requests |-> NoArgs]
    /\ tloc = [r \in Requests |-> NoLocals]

\* The service after start-up: an empty table, no request yet
Init == FusionIdle /\ SimIdle /\ CallIdle /\ OrchStart /\ dbConnected \in BOOLEAN /\ env = TwoCallers

\* The same, with one caller and a freer upstream
InitEnrich == FusionIdle /\ SimIdle /\ CallIdle /\ OrchStart /\ dbConnected \in BOOLEAN /\ env = OneCaller

\* _merge_results about to be called on two result lists
InitFusion ==
    /\ fOa \in SeqsUpTo(OaPool, MaxOa)
    /\ fS2 \in SeqsUpTo(S2Pool, MaxS2)
    /\ fOut = << >>
    /\ fPc = "input"
    /\ fLimit = 0
    /\ SimIdle /\ CallIdle /\ OrchStart /\ dbConnected = FALSE /\ env = OneCaller

\* DataFusionService.search about to be called: what the two providers would
\* answer, and the limit (SearchRequest.limit is at least 1)
InitSearch ==
    /\ fOa \in SeqsUpTo(OaPool, MaxOa)
    /\ fS2 \in SeqsUpTo(S2Pool, MaxS2)
    /\ fOut = << >>
    /\ fPc = "query"
    /\ fLimit \in 1..MaxLimit
    /\ SimIdle /\ CallIdle /\ OrchStart /\ dbConnected = FALSE /\ env = OneCaller

\* _merge_results about to be called on longer lists of fewer records
InitRank ==
    /\ fOa \in SeqsUpTo(RankedOaPool, MaxRankedOa)
    /\ fS2 \in SeqsUpTo(RankedS2Pool, MaxRankedS2)
    /\ fOut = << >>
    /\ fPc = "input"
    /\ fLimit = 0
    /\ SimIdle /\ CallIdle /\ OrchStart /\ dbConnected = FALSE /\ env = OneCaller

\* compute_edges about to be called
InitSim ==
    /\ sEmb \in SeqsUpTo(VectorPool, MaxPapers)
    /\ sIds \in {[i \in 1..Len(sEmb) |-> i - 1], [i \in 1..Len(sEmb) |-> Len(sEmb) - i]}
    /\ sThr \in ThresholdPool
    /\ sMax \in 0..MaxDegree
    /\ sOut = << >>
    /\ sPc = "input"
    /\ FusionIdle /\ CallIdle /\ OrchStart /\ dbConnected = FALSE /\ env = OneCaller

\* detect_bridge_nodes about to be called: a node is in a cluster of its own
\* or in the noise cluster, the second node may also share the first one's
\* cluster, and any set of pairs is joined
BridgeNodeLists ==
    UNION {{[i \in 1..n |-> [id |-> i - 1, cluster_id |-> c[i]]] :
              c \in {d \in [1..n -> -1..(n - 1)] : \A i \in 1..n :
                                                d[i] \in {-1, i - 1} \cup (IF i = 2 THEN {0} ELSE {})}} :
           n \in 0..MaxBridgeNodes}

\* the pair (i, j), i < j, has the key i * n + j
BridgeEdgeLists(n) ==
    {[k \in 1..Len(keys) |-> [source |-> keys[k] \div n, target |-> keys[k] % n]] :
        keys \in {SortedInts(S) : S \in SUBSET {key \in 0..(n * n - 1) : key \div n < key % n}}}

InitBridge ==
    /\ callFn = "detect_bridge_nodes"
    /\ \E nodes \in BridgeNodeLists :
        \E edges \in BridgeEdgeLists(Len(nodes)) :
            callArgs = [nodes |-> nodes, edges |-> edges]
    /\ callOut = << >>
    /\ callPc = "input"
    /\ FusionIdle /\ SimIdle /\ OrchStart /\ dbConnected = FALSE /\ env = TwoCallers

\* detect_gaps about to be called: papers clustered as above, the clusters
\* they are in, and a list of edges that may join two papers several times,
\* in either direction and with either type
GapPaperLists ==
    UNION {{[i \in 1..n |-> [id |-> i - 1, cluster_id |-> c[i]]] :
              c \in {d \in [1..n -> -1..(n - 1)] : \A i \in 1..n :
                                                d[i] \in {-1, i - 1} \cup (IF i = 2 THEN {0} ELSE {})}} :
           n \in 0..MaxGapPapers}

GapClusters(papers) ==
    LET ids == SortedInts({papers[i].cluster_id : i \in 1..Len(papers)})
    IN [k \in 1..Len(ids) |-> [id |-> ids[k]]]

GapEdgeLists(n) ==
    {[k \in 1..Len(keys) |->
        [source |-> IF k % 3 = 0 THEN keys[k] % n ELSE keys[k] \div n,
         target |-> IF k % 3 = 0 THEN keys[k] \div n ELSE keys[k] % n,
         type   |-> IF k % 2 = 0 THEN "citation" ELSE "similarity"]] :
        keys \in {q \in SeqsUpTo({key \in 0..(n * n - 1) : key \div n < key % n}, MaxGapEdges) :
                    \A k \in 1..(Len(q) - 1) : q[k] <= q[k + 1]}}

InitGaps ==
    /\ callFn = "detect_gaps"
    /\ \E papers \in GapPaperLists :
        \E edges \in GapEdgeLists(Len(papers)) :
            callArgs = [papers |-> papers, clusters |-> GapClusters(papers), edges |-> edges]
    /\ callOut = << >>
    /\ callPc = "input"
    /\ FusionIdle /\ SimIdle /\ OrchStart /\ dbConnected = FALSE /\ env = TwoCallers

\* analyze_trends about to be called: papers listed from the oldest to the
\* newest, undated ones first, each in cluster 0 or 1 and the last one
\* possibly in the noise cluster, and the clusters listed out of order with
\* the noise cluster among them
TrendPaperLists(n) ==
    {[i \in 1..n |-> [id |-> i - 1, year |-> y[i],
                      citation_count |-> (2 * i) % 3, cluster_id |-> c[i]]] :
        y \in {z \in [1..n -> 0..MaxYear] : \A i \in 1..(n - 1) : z[i] <= z[i + 1]},
        c \in {d \in [1..n -> -1..1] : \A i \in 1..(n - 1) : d[i] # -1}}

InitTrends ==
    /\ callFn = "analyze_trends"
    /\ \E n \in 0..MaxTrendPapers :
       \E papers \in TrendPaperLists(n) :
        \E clusters \in {<<[id |-> 1], [id |-> -1], [id |-> 0]>>}
                           \cup (IF Len(papers) <= 1 THEN {<< >>} ELSE {}) :
            callArgs = [papers |-> papers, clusters |-> clusters]
    /\ callOut = << >>
    /\ callPc = "input"
    /\ FusionIdle /\ SimIdle /\ OrchStart /\ dbConnected = FALSE /\ env = TwoCallers

\* Two search requests whose cache keys are about to be computed
KeyRequests ==
    [query                : {<<"Alpha">>, <<" ", "alpha", " ">>, <<"Beta">>},
     limit                : {1, DefaultLimit},
     year_start           : {0, 1900},
     year_end             : {0, 2030},
     fields_of_study      : {None, << >>, <<"Biology">>, <<"Biology", "Medicine">>,
                             <<"Medicine", "Biology">>, <<"Biology", "Biology">>},
     similarity_threshold : Thresholds]

InitKey ==
    /\ callFn = "_cache_key"
    /\ \E a \in KeyRequests :
        \E b \in {q \in KeyRequests : q.similarity_threshold = 70} :
            callArgs = [a |-> a, b |-> b]
    /\ callOut = << >>
    /\ callPc = "input"
    /\ FusionIdle /\ SimIdle /\ OrchStart /\ dbConnected = FALSE /\ env = TwoCallers

\* assign_cluster about to be called: n centroids under the keys 0..n-1,
\* inserted in any order
CentroidMaps(n) ==
    {[i \in 1..n |-> [k |-> keys[i], v |-> vs[i]]] :
        keys \in {q \in [1..n -> 0..(n - 1)] : \A i, j \in 1..n : q[i] = q[j] => i = j},
        vs \in [1..n -> VectorPool]}

InitAssign ==
    /\ callFn = "assign_cluster"
    /\ \E n \in 0..MaxCentroids :
        \E new_embedding \in VectorPool, cluster_centroids \in CentroidMaps(n),
           threshold \in {-100, 0, 50} :
            callArgs = [new_embedding |-> new_embedding,
                        cluster_centroids |-> cluster_centroids,
                        threshold |-> threshold]
    /\ callOut = << >>
    /\ callPc = "input"
    /\ FusionIdle /\ SimIdle /\ OrchStart /\ dbConnected = FALSE /\ env = TwoCallers

\* What the upstream may answer to one attempt: success, a rate limit with
\* a short or a long (or no) Retry-After, a client error, a server error, or
\* no answer at all
UpstreamAnswers ==
    {[status |-> 200, retry_after |-> 0], [status |-> 429, retry_after |-> 1],
     [status |-> 429, retry_after |-> 60], [status |-> 404, retry_after |-> 0],
     [status |-> 503, retry_after |-> 0], [status |-> 0, retry_after |-> 0]}

\* _request about to be called on a client of either provider
InitRetry ==
    /\ callFn \in {"s2._request", "oa._request"}
    /\ \E max_retries \in 0..MaxRetries : callArgs = [max_retries |-> max_retries]
    /\ callOut = [attempt |-> 0, answers |-> << >>, outcome |-> "pending"]
    /\ callPc = "input"
    /\ FusionIdle /\ SimIdle /\ OrchStart /\ dbConnected = FALSE /\ env = TwoCallers

(***************************************************************************)
(* Actions: the pure functions applied on their own                        *)
(***************************************************************************)
\* GapDetector.detect_gaps
GapDetect ==
    /\ callFn = "detect_gaps" /\ callPc = "input"
    /\ callOut' = DetectGaps(callArgs.papers, callArgs.clusters, callArgs.edges)
    /\ callPc' = "done"
    /\ UNCHANGED <<callFn, callArgs, fusVars, simVars, orchVars>>

\* TrendAnalyzer.analyze_trends
TrendAnalyze ==
    /\ callFn = "analyze_trends" /\ callPc = "input"
    /\ callOut' = AnalyzeTrends(callArgs.papers, callArgs.clusters)
    /\ callPc' = "done"
    /\ UNCHANGED <<callFn, callArgs, fusVars, simVars, orchVars>>

\* search_papers from its start to cache_hash, for each of the two requests
KeyCompute ==
    /\ callFn = "_cache_key" /\ callPc = "input"
    /\ callOut' = [r \in {"a", "b"} |->
                     The({[year_range |-> year_range,
                           cache_hash |-> CacheKey(callArgs[r].query, callArgs[r].limit,
                                                   year_range, callArgs[r].fields_of_study)] :
                          year_range \in {YearRange(callArgs[r].year_start,
                                                    callArgs[r].year_end)}})]
    /\ callPc' = "done"
    /\ UNCHANGED <<callFn, callArgs, fusVars, simVars, orchVars>>

\* assign_cluster
AssignRun ==
    /\ callFn = "assign_cluster" /\ callPc = "input"
    /\ callOut' = AssignCluster(callArgs.new_embedding, callArgs.cluster_centroids,
                                callArgs.threshold)
    /\ callPc' = "done"
    /\ UNCHANGED <<callFn, callArgs, fusVars, simVars, orchVars>>

\* One HTTP attempt of _request and what the loop does with its answer
ProviderRequest ==
    /\ callFn \in {"s2._request", "oa._request"} /\ callPc = "input"
    /\ \E answer \in UpstreamAnswers :
          callOut' = IF callFn = "s2._request"
                     THEN S2Request(callOut, callArgs.max_retries, answer)
                     ELSE OaRequest(callOut, callArgs.max_retries, answer)
    /\ callPc' = IF callOut'.outcome = "pending" THEN "input" ELSE "done"
    /\ UNCHANGED <<callFn, callArgs, fusVars, simVars, orchVars>>

\* detect_bridge_nodes
BridgeDetect ==
    /\ callFn = "detect_bridge_nodes" /\ callPc = "input"
    /\ callOut' = DetectBridgeNodes(callArgs.nodes, callArgs.edges)
    /\ callPc' = "done"
    /\ UNCHANGED <<callFn, callArgs, fusVars, simVars, orchVars>>

FusionMerge ==
    /\ fPc = "input"
    /\ fOut' = MergeResults(fOa, fS2)
    /\ fPc' = "merged"
    /\ UNCHANGED <<fOa, fS2, fLimit, simVars, callVars, orchVars>>

\* DataFusionService.search: either provider call may raise; fOa and fS2 are
\* from then on the two lists search gave to _merge_results
FusionSearch ==
    /\ fPc = "query"
    /\ \E oa_raw \in {Failed, Answer(fOa)}, s2_raw \in {Failed, Answer(fS2)} :
        /\ fOa' = ResultsOrEmpty(oa_raw)
        /\ fS2' = ResultsOrEmpty(s2_raw)
        /\ fOut' = Search(oa_raw, s2_raw, fLimit)
    /\ fPc' = "searched"
    /\ UNCHANGED <<fLimit, simVars, callVars, orchVars>>

SimCompute ==
    /\ sPc = "input"
    /\ sOut' = ComputeEdges(sEmb, sIds, sThr, sMax)
    /\ sPc' = "done"
    /\ UNCHANGED <<sEmb, sIds, sThr, sMax, fusVars, callVars, orchVars>>

(***************************************************************************)
(* Actions: search_papers                                                  *)
(***************************************************************************)
HandlerNodes(r) == Obj(r, "nodes", "handler")
HandlerEdges(r) == Obj(r, "edges", "handler")
HandlerClusters(r) == Obj(r, "clusters", "handler")

\* From the start of the handler to the end of the cache lookup: the key, the
\* SELECT, and on a hit the response built from the row. The lookup is
\* skipped without a pool; fetchrow may raise ("error"), and so may the
\* building of the response ("unreadable"): both are logged and dropped, and
\* the handler goes on as after a miss.
CacheCheck(r) ==
    /\ pc[r] = "idle"
    /\ r \in env.requests
    /\ Arrived(r)
    /\ \E query \in Queries, threshold \in env.thresholds, lookup_ok \in BOOLEAN :
        LET key == CacheKey(query, DefaultLimit, None, None)
            cached == Fetched(cache[key])
            outcome == IF ~dbConnected THEN "skipped"
                       ELSE IF ~lookup_ok THEN "error"
                       ELSE IF ~FetchFresh(cache, key, now) THEN "miss"
                       ELSE IF Readable(cached) THEN "hit"
                       ELSE "unreadable"
        IN /\ request' = [request EXCEPT ![r] =
                            [query |-> query, similarity_threshold |-> threshold,
                             cache_hash |-> key]]
           /\ lookup' = [lookup EXCEPT ![r] = outcome]
           /\ IF outcome = "hit"
              THEN /\ lists' = [lists EXCEPT ![HandlerNodes(r)] = cached.nodes.value,
                                             ![HandlerEdges(r)] = cached.edges.value,
                                             ![HandlerClusters(r)] = cached.clusters.value]
                   /\ respMeta' = [respMeta EXCEPT ![r] = cached.meta.value]
                   /\ pc' = [pc EXCEPT ![r] = "done"]
              ELSE /\ pc' = [pc EXCEPT ![r] = "fuse"]
                   /\ UNCHANGED <<lists, respMeta>>
    /\ UNCHANGED <<env, now, dbConnected, cache, provRaw, fused, taskVars, fusVars, simVars, callVars>>

\* fusion.search(): both provider calls and the merge; an empty result returns
\* at once, without a cache write.
Fuse(r) ==
    /\ pc[r] = "fuse"
    /\ \E oa_raw \in OaAnswers, s2_raw \in S2Answers :
        \E found \in {Search(oa_raw, s2_raw, DefaultLimit)} :
           /\ provRaw' = [provRaw EXCEPT ![r] = [oa |-> oa_raw, s2 |-> s2_raw]]
           /\ fused' = [fused EXCEPT ![r] = found]
           /\ IF found = << >>
              THEN /\ respMeta' = [respMeta EXCEPT ![r] = EmptyMeta(request[r].query)]
                   /\ lookup' = [lookup EXCEPT ![r] = "none"]
                   /\ pc' = [pc EXCEPT ![r] = "done"]
              ELSE /\ pc' = [pc EXCEPT ![r] = "build"]
                   /\ UNCHANGED <<respMeta, lookup>>
    /\ UNCHANGED <<env, now, dbConnected, cache, request, lists, taskVars, fusVars, simVars, callVars>>

\* From the embedding filter to the cache write's await: reduce, cluster,
\* similarity, nodes, bridges, edges, clusters, create_task, periphery, meta.
Build(r) ==
    /\ pc[r] = "build"
    /\ LET n_with == Cardinality({i \in 1..Len(fused[r]) : fused[r][i].embedding # NoEmbedding})
       IN \E cluster_labels \in (IF n_with >= 2 THEN ClusterAnswers(n_with) ELSE {<< >>}) :
        \E g \in {BuildGraph(request[r].query, fused[r], cluster_labels,
                               request[r].similarity_threshold)} :
        \* the handler's lists when it reaches create_task
        \E h1 \in {[lists EXCEPT ![HandlerNodes(r)] = g.task_nodes,
                                 ![HandlerEdges(r)] = g.edges,
                                 ![HandlerClusters(r)] = g.clusters_info]} :
        \E cn \in {ListCopy(h1, HandlerNodes(r), Obj(r, "nodes", "task"))} :
        \E ce \in {ListCopy(cn.heap, HandlerEdges(r), Obj(r, "edges", "task"))} :
        \E cc \in {ListCopy(ce.heap, HandlerClusters(r), Obj(r, "clusters", "task"))} :
        \E h2 \in {IF g.spawn THEN cc.heap ELSE h1} :
           \* the periphery nodes are appended to the handler's list afterwards
           /\ lists' = [h2 EXCEPT ![HandlerNodes(r)] = g.nodes]
           /\ respMeta' = [respMeta EXCEPT ![r] = g.meta]
           /\ IF g.spawn
              THEN /\ tpc' = [tpc EXCEPT ![r] = "start"]
                   /\ targs' = [targs EXCEPT ![r] =
                                  [nodes         |-> cn.ref,
                                   edges         |-> ce.ref,
                                   clusters_info |-> cc.ref,
                                   s2_to_node_id |-> g.s2_to_node_id,
                                   cache_hash    |-> request[r].cache_hash,
                                   meta_base     |-> g.meta_base]]
              ELSE UNCHANGED <<tpc, targs>>
    /\ fused' = [fused EXCEPT ![r] = << >>]
    /\ lookup' = [lookup EXCEPT ![r] = "none"]
    /\ pc' = [pc EXCEPT ![r] = IF dbConnected THEN "write" ELSE "done"]
    /\ UNCHANGED <<env, now, dbConnected, cache, request, provRaw, tloc,
                   fusVars, simVars, callVars>>

\* The request path's upsert with nothing to catch what it raises: the
\* exception ends the handler, which returns no graph
WriteCacheRaising(r) ==
    /\ pc[r] = "write"
    /\ \E write_ok \in BOOLEAN :
        LET row == Row(lists[HandlerNodes(r)], lists[HandlerEdges(r)],
                       lists[HandlerClusters(r)], respMeta[r], now)
        IN IF write_ok
           THEN /\ cache' = UpsertAll(cache, request[r].cache_hash, row)
                /\ UNCHANGED <<respMeta, lists>>
           ELSE /\ UNCHANGED cache
                /\ respMeta' = [respMeta EXCEPT ![r] = EmptyMeta(None)]
                /\ lists' = [lists EXCEPT ![HandlerNodes(r)] = << >>,
                                          ![HandlerEdges(r)] = << >>,
                                          ![HandlerClusters(r)] = << >>]
    /\ pc' = [pc EXCEPT ![r] = "done"]
    /\ UNCHANGED <<env, now, dbConnected, request, lookup, provRaw, fused,
                   taskVars, fusVars, simVars, callVars>>

\* The request path's upsert completes (or raises, which is logged and
\* dropped), and the handler returns its response.
WriteCache(r) ==
    /\ pc[r] = "write"
    /\ \E write_ok \in BOOLEAN :
        LET row == Row(lists[HandlerNodes(r)], lists[HandlerEdges(r)],
                       lists[HandlerClusters(r)], respMeta[r], now)
        IN IF write_ok
           THEN cache' = UpsertAll(cache, request[r].cache_hash, row)
           ELSE UNCHANGED cache
    /\ pc' = [pc EXCEPT ![r] = "done"]
    /\ UNCHANGED <<env, now, dbConnected, request, lookup, provRaw, fused, respMeta, lists,
                   taskVars, fusVars, simVars, callVars>>

(***************************************************************************)
(* Actions: _enrich_citations_background                                   *)
(***************************************************************************)
\* The task's first run: existing_edge_keys, the batch, up to the first await
TaskStart(r) ==
    /\ tpc[r] = "start"
    /\ tloc' = [tloc EXCEPT ![r] =
                  [existing_edge_keys   |-> {<<e.source, e.target>> : e \in Range(lists[targs[r].edges])},
                   batch_s2_ids         |-> BatchS2Ids(lists[targs[r].nodes]),
                   idx                  |-> 1,
                   citation_edges_added |-> 0,
                   failed_count         |-> 0]]
    /\ tpc' = [tpc EXCEPT ![r] = "fetch"]
    /\ UNCHANGED <<env, now, dbConnected, cache, reqVars, lists, targs, fusVars, simVars, callVars>>

\* A variant of the turn in which a failed get_references ends the task
TaskFetchAborting(r) ==
    /\ tpc[r] = "fetch"
    /\ \E refs \in env.ref_answers :
        LET s2_id  == tloc[r].batch_s2_ids[tloc[r].idx]
            source == DictGet(targs[r].s2_to_node_id, s2_id)
            st0    == [edges              |-> lists[targs[r].edges],
                       existing_edge_keys |-> tloc[r].existing_edge_keys,
                       added              |-> tloc[r].citation_edges_added]
            last   == tloc[r].idx = Len(tloc[r].batch_s2_ids)
        IN \E st \in {IF refs.ok
                      THEN ProcessRefs(refs.results, 1, source, targs[r].s2_to_node_id, st0)
                      ELSE st0} :
           /\ lists' = [lists EXCEPT ![targs[r].edges] = st.edges]
           /\ tloc' = [tloc EXCEPT ![r].existing_edge_keys = st.existing_edge_keys,
                                   ![r].citation_edges_added = st.added,
                                   ![r].failed_count = IF refs.ok THEN @ ELSE @ + 1,
                                   ![r].idx = @ + 1]
           /\ tpc' = [tpc EXCEPT ![r] =
                        IF ~refs.ok THEN "done"
                        ELSE IF ~last THEN "fetch"
                        ELSE IF ShouldRewrite(dbConnected, st.added) THEN "write"
                        ELSE "done"]
    /\ UNCHANGED <<env, now, dbConnected, cache, reqVars, targs, fusVars, simVars, callVars>>

\* One get_references answer and the turn of the batch loop that handles it;
\* after the last turn, the rewrite guard.
TaskFetch(r) ==
    /\ tpc[r] = "fetch"
    /\ \E refs \in env.ref_answers :
        LET s2_id  == tloc[r].batch_s2_ids[tloc[r].idx]
            source == DictGet(targs[r].s2_to_node_id, s2_id)
            st0    == [edges              |-> lists[targs[r].edges],
                       existing_edge_keys |-> tloc[r].existing_edge_keys,
                       added              |-> tloc[r].citation_edges_added]
            last   == tloc[r].idx = Len(tloc[r].batch_s2_ids)
        IN \E st \in {IF refs.ok
                      THEN ProcessRefs(refs.results, 1, source, targs[r].s2_to_node_id, st0)
                      ELSE st0} :
           /\ lists' = [lists EXCEPT ![targs[r].edges] = st.edges]
           /\ tloc' = [tloc EXCEPT ![r].existing_edge_keys = st.existing_edge_keys,
                                   ![r].citation_edges_added = st.added,
                                   ![r].failed_count = IF refs.ok THEN @ ELSE @ + 1,
                                   ![r].idx = @ + 1]
           /\ tpc' = [tpc EXCEPT ![r] =
                        IF ~last THEN "fetch"
                        ELSE IF ShouldRewrite(dbConnected, st.added) THEN "write"
                        ELSE "done"]
    /\ UNCHANGED <<env, now, dbConnected, cache, reqVars, targs, fusVars, simVars, callVars>>

\* The task's upsert completes, or raises and is logged and dropped
TaskWrite(r) ==
    /\ tpc[r] = "write"
    /\ \E write_ok \in BOOLEAN :
        LET row == Row(lists[targs[r].nodes], lists[targs[r].edges],
                       lists[targs[r].clusters_info],
                       MetaUpdated(targs[r].meta_base, tloc[r].citation_edges_added), now)
        IN IF write_ok
           THEN cache' = UpsertEdgesMeta(cache, targs[r].cache_hash, row)
           ELSE UNCHANGED cache
    /\ tpc' = [tpc EXCEPT ![r] = "done"]
    /\ UNCHANGED <<env, now, dbConnected, reqVars, lists, targs, tloc, fusVars, simVars, callVars>>

\* Time passes
Tick ==
    /\ now + TickHours <= MaxTime
    /\ now' = now + TickHours
    /\ UNCHANGED <<env, dbConnected, cache, reqVars, lists, taskVars, fusVars, simVars, callVars>>

(***************************************************************************)
(* Specifications                                                          *)
(***************************************************************************)
Next ==
    \/ \E r \in Requests : CacheCheck(r)
    \/ \E r \in Requests : Fuse(r)
    \/ \E r \in Requests : Build(r)
    \/ \E r \in Requests : WriteCache(r)
    \/ \E r \in Requests : TaskStart(r)
    \/ \E r \in Requests : TaskFetch(r)
    \/ \E r \in Requests : TaskWrite(r)
    \/ Tick

Spec == Init /\ [][Next]_vars

SpecEnrich == InitEnrich /\ [][Next]_vars

SpecFusion == InitFusion /\ [][FusionMerge]_vars

SpecRank == InitRank /\ [][FusionMerge]_vars

SpecSearch == InitSearch /\ [][FusionSearch]_vars

SpecGaps == InitGaps /\ [][GapDetect]_vars

SpecTrends == InitTrends /\ [][TrendAnalyze]_vars

SpecKey == InitKey /\ [][KeyCompute]_vars

SpecAssign == InitAssign /\ [][AssignRun]_vars

SpecRetry == InitRetry /\ [][ProviderRequest]_vars

SpecBridge == InitBridge /\ [][BridgeDetect]_vars

SpecSim == InitSim /\ [][SimCompute]_vars

(***************************************************************************)
(* Properties                                                              *)
(***************************************************************************)
HasDoi(p) == Truthy(p.doi)

\* The number of edges an id appears in, as source or as target
EdgeCount(edges, id) ==
    Cardinality({k \in 1..Len(edges) : edges[k].source = id \/ edges[k].target = id})

Endpoints(e) == {e.source, e.target}

\* C1 (dedup invariant of fusion): the list _merge_results returns holds no
\* two records with the same normalized DOI, and no two DOI-less records with
\* the same lowercased, trimmed title, whatever the two result lists are.
C1_FusedRecordsUnique ==
    fPc = "merged" =>
        \A i, j \in 1..Len(fOut) :
            i < j =>
                /\ ~(HasDoi(fOut[i]) /\ HasDoi(fOut[j]) /\ fOut[i].doi = fOut[j].doi)
                /\ ~(/\ ~HasDoi(fOut[i]) /\ ~HasDoi(fOut[j])
                     /\ TitleKey(fOut[i].title) = TitleKey(fOut[j].title))

\* C7 (degree cap): no paper id appears, as source or target, in more than
\* max_edges_per_node of the edges compute_edges returns.
C7_DegreeCap ==
    sPc = "done" => \A id \in Range(sIds) : EdgeCount(sOut, id) <= sMax

\* C7's case: the cap is what kept a pair above the threshold out -- a paper
\* sits at the cap, and one of its candidate pairs has no edge.
C7_CapReached ==
    /\ sPc = "done"
    /\ sMax >= 1
    /\ \E i, j \in 1..Len(sEmb) :
        /\ i < j
        /\ SimsRow(sEmb, i, j) >= sThr
        /\ EdgeCount(sOut, sIds[j]) = sMax
        /\ ~\E k \in 1..Len(sOut) : Endpoints(sOut[k]) = {sIds[i], sIds[j]}

\* C8 (similarity edges are simple): compute_edges returns no edge from a
\* paper to itself and no unordered pair twice, in the same or in opposite
\* directions; fewer than two embeddings give no edge.  (paper_ids name the
\* rows, one id per row.)
C8_SimpleEdges ==
    sPc = "done" =>
        /\ \A k \in 1..Len(sOut) : sOut[k].source # sOut[k].target
        /\ \A k, l \in 1..Len(sOut) : k < l => Endpoints(sOut[k]) # Endpoints(sOut[l])
        /\ Len(sEmb) < 2 => sOut = << >>

\* C8's case: three mutually similar papers, each pair seen from both rows
\* of the matrix, and every pair got its one edge.
C8_EveryPairOnce ==
    /\ sPc = "done"
    /\ Len(sEmb) = 3
    /\ \A i, j \in 1..3 : i # j => SimsRow(sEmb, i, j) >= sThr
    /\ Len(sOut) = 3

IsPrefix(s, t) == Len(s) <= Len(t) /\ SubSeq(t, 1, Len(s)) = s

\* A step of request r's enrichment task
TaskStep(r) ==
    /\ tpc[r] \in {"start", "fetch", "write"}
    /\ tpc'[r] # tpc[r] \/ tloc'[r] # tloc[r]

\* What the handler of r returns (or is assembling)
RequestSnapshot(r) ==
    [nodes    |-> lists[HandlerNodes(r)],
     edges    |-> lists[HandlerEdges(r)],
     clusters |-> lists[HandlerClusters(r)],
     meta     |-> respMeta[r]]

\* What the enrichment task of r holds: its three lists and meta_updated
TaskSnapshot(r) ==
    [nodes    |-> lists[targs[r].nodes],
     edges    |-> lists[targs[r].edges],
     clusters |-> lists[targs[r].clusters_info],
     meta     |-> MetaUpdated(targs[r].meta_base, tloc[r].citation_edges_added)]

\* The list or dict that a column's text holds, the quoting removed
Denoted(text) == JsonLoads(JsonbDecoder(text).value).value

RowIs(row, snapshot) ==
    /\ Denoted(row.nodes) = snapshot.nodes
    /\ Denoted(row.edges) = snapshot.edges
    /\ Denoted(row.clusters) = snapshot.clusters
    /\ Denoted(row.meta) = snapshot.meta

\* C2 (no duplicated expensive work): of two requests with the same cache
\* key that both missed the cache, at most one has run the provider fetches
\* and stands before the rest of the pipeline.
C2_PipelineOnce ==
    \A r, q \in Requests :
        (/\ r # q
         /\ pc[r] = "build" /\ lookup[r] = "miss"
         /\ pc[q] = "build" /\ lookup[q] = "miss")
        => request[r].cache_hash # request[q].cache_hash

\* C3 (snapshot-consistent cache row): the row of a key (there is at most one,
\* cache being a function of the key) has its nodes, edges, clusters and meta
\* all from one writer's snapshot -- a request that ran the pipeline, or an
\* enrichment task that reached its rewrite.
C3_RowFromOneWriter ==
    \A key \in DOMAIN cache :
        \E r \in Requests :
            \/ /\ pc[r] = "done" /\ lookup[r] # "hit"
               /\ request[r].cache_hash = key
               /\ RowIs(cache[key], RequestSnapshot(r))
            \/ /\ tpc[r] \in {"write", "done"}
               /\ targs[r].cache_hash = key
               /\ RowIs(cache[key], TaskSnapshot(r))

\* C4 (response isolation from enrichment): a step of an enrichment task
\* changes no request's nodes, edges, clusters or meta and no request's
\* progress; the one list it changes is its own copy of the edges, and only
\* by appending citation edges.
C4_ResponseIsolated ==
    [][\A r \in Requests :
          TaskStep(r) =>
            LET own == Obj(r, "edges", "task")
            IN /\ respMeta' = respMeta
               /\ pc' = pc
               /\ \A o \in Objects : o # own => lists'[o] = lists[o]
               /\ targs[r].edges = own
               /\ IsPrefix(lists[own], lists'[own])
               /\ \A k \in (Len(lists[own]) + 1)..Len(lists'[own]) :
                     lists'[own][k].type = "citation"]_vars

\* C4's case: while the handler still waits for its cache write, its task
\* has had one get_references fail and another give a citation edge, which
\* is in the task's list and not in the handler's.
C4_TaskAheadOfHandler ==
    \E r \in Requests :
        /\ pc[r] = "write"
        /\ tloc[r].failed_count > 0
        /\ tloc[r].citation_edges_added > 0
        /\ Len(lists[HandlerEdges(r)]) < Len(lists[targs[r].edges])

\* C5 (enrichment rewrite guard): a step of an enrichment task changes the
\* cache table only when it is the task's rewrite and the task has added at
\* least one citation edge; every other step of the task, and a rewrite that
\* fails, leaves the table as it was.
C5_RewriteGuard ==
    [][\A r \in Requests :
          (TaskStep(r) /\ cache' # cache) =>
              /\ tpc[r] = "write"
              /\ tloc[r].citation_edges_added > 0]_vars

\* C5's case: a task has finished with no new edge (a get_references call
\* having failed) while the row of its key is in the table.
C5_NothingToRewrite ==
    \E r \in Requests :
        /\ tpc[r] = "done"
        /\ tloc[r].citation_edges_added = 0
        /\ tloc[r].failed_count > 0
        /\ targs[r].cache_hash \in DOMAIN cache

\* The cache lookup of r ran in this step, and its SELECT gave an answer
LookedUp(r) ==
    /\ pc[r] = "idle"
    /\ pc'[r] # "idle"
    /\ lookup'[r] \notin {"skipped", "error"}

\* C6 (cache hit): a lookup whose SELECT finds a row of the request's key
\* less than 24 hours old makes the handler return the nodes, edges, clusters
\* and meta that were stored, with no provider call, no pipeline step, no
\* cache write and no enrichment task, then or later; a row more than 24
\* hours old is a miss.
C6_CacheHit ==
    [][\A r \in Requests :
          /\ LookedUp(r) =>
                LET key == request'[r].cache_hash
                IN /\ (key \in DOMAIN cache /\ now - cache[key].created_at < CacheTtlHours) =>
                          /\ lookup'[r] = "hit"
                          /\ pc'[r] = "done"
                          /\ RowIs(cache[key], RequestSnapshot(r)')
                          /\ cache' = cache
                          /\ provRaw' = provRaw /\ fused' = fused
                          /\ taskVars' = taskVars
                   /\ (key \in DOMAIN cache /\ now - cache[key].created_at > CacheTtlHours) =>
                          /\ lookup'[r] = "miss"
                          /\ pc'[r] = "fuse"
          /\ lookup[r] = "hit" =>
                /\ pc'[r] = "done" /\ lookup'[r] = "hit"
                /\ RequestSnapshot(r)' = RequestSnapshot(r)
                /\ provRaw'[r] = NoRaw /\ fused'[r] = << >>
                /\ tpc'[r] = "none"]_vars

\* C9 (citation edges well-formed): every citation edge in an enrichment
\* task's edge list joins two different nodes, and its node pair is the pair
\* of no other edge of the list, be it of the snapshot or added by the task.
C9_CitationEdgesWellFormed ==
    \A r \in Requests :
        tpc[r] # "none" =>
            LET es == lists[targs[r].edges]
            IN \A k \in 1..Len(es) :
                  es[k].type = "citation" =>
                      /\ es[k].source # es[k].target
                      /\ \A l \in 1..Len(es) : l # k => Endpoints(es[l]) # Endpoints(es[k])

\* The providers whose search failed for request r
FailedSources(r) == {s \in {"oa", "s2"} : ~provRaw[r][s].ok}

\* r went through the pipeline, and its meta is set
Answered(r) == pc[r] \in {"write", "done"} /\ lookup[r] # "hit"

\* C10 (fusion tolerates a failed source): with a provider failed, search
\* returns what it returns for the surviving provider's results and an empty
\* list from the failed one, and the response meta tells which providers
\* failed: two responses with the same meta had the same providers fail.
C10_FailedSourceMarked ==
    /\ \A r \in Requests :
          pc[r] = "build" =>
              /\ ~provRaw[r].oa.ok => fused[r] = Search(Answer(<< >>), provRaw[r].s2, DefaultLimit)
              /\ ~provRaw[r].s2.ok => fused[r] = Search(provRaw[r].oa, Answer(<< >>), DefaultLimit)
    /\ \A r, q \in Requests :
          (Answered(r) /\ Answered(q) /\ respMeta[r] = respMeta[q])
          => FailedSources(r) = FailedSources(q)


\* A provider-A record a and a provider-B record b of the lists given to
\* _merge_results are a pair when they have the same usable normalized DOI or,
\* no provider-B record having a's DOI, the same normalized title.
DoiMatch(a, b) ==
    Truthy(NormalizeDoi(a.doi)) /\ NormalizeDoi(a.doi) = NormalizeDoi(b.doi)

TitleMatch(a, b) ==
    Truthy(a.title) /\ Truthy(b.title) /\ TitleKey(a.title) = TitleKey(b.title)

Matches(a, b, s2_results) ==
    \/ DoiMatch(a, b)
    \/ /\ ~\E c \in Range(s2_results) : DoiMatch(a, c)
       /\ TitleMatch(a, b)

\* C11 (merge precedence): for every provider-A record a and provider-B
\* record b that match, by normalized DOI first and else by normalized title,
\* the output of _merge_results holds exactly one record made from a; its
\* title, venue, citation count and topics are a's, it carries b's id, b's
\* short summary and b's embedding, and b is not emitted again on its own.
C11_MergePrecedence ==
    fPc = "merged" =>
        \A i \in 1..Len(fOa), j \in 1..Len(fS2) :
            Matches(fOa[i], fS2[j], fS2) =>
                LET a == fOa[i]
                    b == fS2[j]
                    made == {k \in 1..Len(fOut) : fOut[k].oa_work_id = a.id}
                IN /\ Cardinality(made) = 1
                   /\ \A k \in made :
                        /\ fOut[k].title = a.title
                        /\ fOut[k].venue = OaVenue(a.primary_location)
                        /\ fOut[k].citation_count = a.citation_count
                        /\ fOut[k].oa_topics = a.topics
                        /\ fOut[k].s2_paper_id = b.paper_id
                        /\ fOut[k].tldr = b.tldr
                        /\ fOut[k].embedding = b.embedding
                   /\ ~\E k \in 1..Len(fOut) :
                        fOut[k].oa_work_id = None /\ fOut[k].s2_paper_id = b.paper_id


\* C12 (unmatched provider-B records survive): every provider-B record that
\* no provider-A record matches, by normalized DOI or by normalized title, is
\* in the output of _merge_results as a record of its own, exactly once, with
\* its provider-B id.
C12_UnmatchedSurvive ==
    fPc = "merged" =>
        \A j \in 1..Len(fS2) :
            (~\E i \in 1..Len(fOa) : DoiMatch(fOa[i], fS2[j]) \/ TitleMatch(fOa[i], fS2[j]))
                => Cardinality({k \in 1..Len(fOut) :
                                  /\ fOut[k].s2_paper_id = fS2[j].paper_id
                                  /\ fOut[k].oa_work_id = None}) = 1


\* Where a fused record's provider-A work, and its provider-B paper, stand in
\* the lists given to _merge_results
OaPositions(x) == {i \in 1..Len(fOa) : fOa[i].id = x.oa_work_id}

S2Positions(x) == {j \in 1..Len(fS2) : fS2[j].paper_id = x.s2_paper_id}

Earlier(P, Q) == P # {} /\ Q # {} /\ \A p \in P, q \in Q : p < q

RrfGeq(x, y) == x.rrf_score.num * y.rrf_score.den >= y.rrf_score.num * x.rrf_score.den

\* C13 (RRF monotonicity): of two fused records X and Y, if X stands earlier
\* than Y in the provider-A list and earlier than Y in the provider-B list,
\* then X's rrf_score is at least Y's.
C13_RrfMonotone ==
    fPc = "merged" =>
        \A x, y \in 1..Len(fOut) :
            (/\ Earlier(OaPositions(fOut[x]), OaPositions(fOut[y]))
             /\ Earlier(S2Positions(fOut[x]), S2Positions(fOut[y])))
                => RrfGeq(fOut[x], fOut[y])


HasEmbedding(p) == p.embedding # NoEmbedding

\* p does not sort after q under (has embedding first, then higher rrf_score)
NotAfter(p, q) ==
    /\ HasEmbedding(q) => HasEmbedding(p)
    /\ HasEmbedding(p) = HasEmbedding(q) => RrfGeq(p, q)

\* C14 (final ordering of fusion): in the list DataFusionService.search
\* returns, every record with an embedding precedes every record without one,
\* rrf_score does not increase inside either group, and there are at most
\* limit records; the cut comes after the sort, so no merged record left out
\* sorts before a returned one.
C14_FinalOrdering ==
    fPc = "searched" =>
        LET merged == MergeResults(fOa, fS2)
        IN /\ Len(fOut) <= fLimit
           /\ \A i, j \in 1..Len(fOut) : i < j => NotAfter(fOut[i], fOut[j])
           /\ Len(fOut) = fLimit \/ Len(fOut) = Len(merged)
           /\ \A m \in Range(merged) \ Range(fOut) : \A o \in Range(fOut) : NotAfter(o, m)

\* search returned records of both groups and left some merged record out
C14_BothGroupsCut ==
    /\ fPc = "searched"
    /\ \E i, j \in 1..Len(fOut) : HasEmbedding(fOut[i]) /\ ~HasEmbedding(fOut[j])
    /\ Len(MergeResults(fOa, fS2)) > fLimit


\* The provider records a fused record was built from
OaSources(x) == {a \in Range(fOa) : a.id = x.oa_work_id}

S2Sources(x) == {b \in Range(fS2) : b.paper_id = x.s2_paper_id}

ClusterOf(id) ==
    LET at == {i \in 1..Len(callArgs.nodes) : callArgs.nodes[i].id = id}
    IN IF at = {} THEN -1 ELSE callArgs.nodes[CHOOSE i \in at : TRUE].cluster_id

\* The other clusters credited to id: those at the far end of an edge of id
\* whose two ends are in different clusters, neither of them the noise cluster
Credited(id) ==
    {ClusterOf(IF e.source = id THEN e.target ELSE e.source) :
        e \in {f \in Range(callArgs.edges) :
                 /\ id \in {f.source, f.target}
                 /\ ClusterOf(f.source) # ClusterOf(f.target)
                 /\ ClusterOf(f.source) # -1
                 /\ ClusterOf(f.target) # -1}}

BridgeScore(id) == Cardinality(Credited(id))

BridgeCandidates ==
    {id \in {callArgs.nodes[i].id : i \in 1..Len(callArgs.nodes)} : BridgeScore(id) >= 2}

\* The k-th smallest score among the candidates
KthScore(k) ==
    CHOOSE v \in {BridgeScore(id) : id \in BridgeCandidates} :
        /\ Cardinality({id \in BridgeCandidates : BridgeScore(id) < v}) < k
        /\ k <= Cardinality({id \in BridgeCandidates : BridgeScore(id) <= v})

\* The 95th percentile of the candidate scores (linear interpolation between
\* the two nearest ranks), rounded down
CandidatePercentile ==
    LET n   == Cardinality(BridgeCandidates)
        lo  == (95 * (n - 1)) \div 100
        rem == (95 * (n - 1)) % 100
        low == KthScore(lo + 1)
        up  == KthScore(IF lo + 2 <= n THEN lo + 2 ELSE n)
    IN low + (rem * (up - low)) \div 100

Smaller(a, b) == IF a <= b THEN a ELSE b

Larger(a, b) == IF a >= b THEN a ELSE b

\* C16, as stated (bridge detection rule): detect_bridge_nodes returns the
\* candidates (credited-cluster set of size at least 2) whose score is at
\* least the smaller of 2 and the 95th percentile of the candidate scores,
\* and the empty set when there is no candidate.
C16_SmallerThreshold ==
    (callFn = "detect_bridge_nodes" /\ callPc = "done") =>
        IF BridgeCandidates = {} THEN callOut = {}
        ELSE callOut = {id \in BridgeCandidates :
                          BridgeScore(id) >= Smaller(2, CandidatePercentile)}

\* C16, amended: detect_bridge_nodes returns the candidates whose score is at
\* least the larger of 2 and the 95th percentile of the candidate scores
\* rounded down, and the empty set when there is no candidate; edges with an
\* end in the noise cluster or with both ends in one cluster credit nothing.
C16_LargerThreshold ==
    (callFn = "detect_bridge_nodes" /\ callPc = "done") =>
        IF BridgeCandidates = {} THEN callOut = {}
        ELSE callOut = {id \in BridgeCandidates :
                          BridgeScore(id) >= Larger(2, CandidatePercentile)}

\* detect_bridge_nodes left a candidate out
C16_CandidateLeftOut ==
    /\ callFn = "detect_bridge_nodes" /\ callPc = "done"
    /\ callOut # {}
    /\ BridgeCandidates \ callOut # {}


\* C17 (gap strength range): every gap detect_gaps computes and returns has
\* 0 <= gap_strength <= 1, whatever the edges are (any type, any direction,
\* several between the same two papers).
C17_GapStrengthRange ==
    (callFn = "detect_gaps" /\ callPc = "done") =>
        \A k \in 1..Len(callOut.gaps) :
            /\ 0 <= callOut.gaps[k].gap_strength
            /\ callOut.gaps[k].gap_strength <= 10000

\* C18 (trend classification priority): a listed cluster with at least one
\* dated paper is put in exactly one category: emerging if its first year
\* is at least global_max_year - 2 and it has at least 2 dated papers,
\* otherwise declining if its last year is at most global_max_year - 3,
\* otherwise stable; so a cluster whose dated papers all lie in years up to
\* global_max_year - 3 is declining whatever its size.
DatedYears(papers, cid) ==
    {papers[k].year : k \in {j \in 1..Len(papers) :
                                papers[j].cluster_id = cid /\ papers[j].year # 0}}

DatedCount(papers, cid) ==
    Cardinality({j \in 1..Len(papers) : papers[j].cluster_id = cid /\ papers[j].year # 0})

ClassOf(out, cid) ==
    {class \in {"emerging", "stable", "declining"} :
        \E k \in 1..Len(out[class]) : out[class][k].cluster_id = cid}

C18_TrendPriority ==
    (callFn = "analyze_trends" /\ callPc = "done") =>
        LET papers == callArgs.papers
            global_max_year == SetMax(UNION {DatedYears(papers, c) : c \in -1..1})
        IN \A n \in 1..Len(callArgs.clusters) :
            LET cid == callArgs.clusters[n].id
                ys  == DatedYears(papers, cid)
            IN (cid # -1 /\ ys # {}) =>
                /\ ClassOf(callOut, cid) =
                      {IF (\A y \in ys : y >= global_max_year - 2) /\ DatedCount(papers, cid) >= 2
                       THEN "emerging"
                       ELSE IF \A y \in ys : y <= global_max_year - 3
                       THEN "declining"
                       ELSE "stable"}
                /\ (\A y \in ys : y <= global_max_year - 3) =>
                      ClassOf(callOut, cid) = {"declining"}

\* A cluster of three or more papers spread over three or more years, all of
\* them old, has been classified declining
C18_LargeOldClusterDeclining ==
    /\ callFn = "analyze_trends" /\ callPc = "done"
    /\ \E k \in 1..Len(callOut.declining) :
        /\ callOut.declining[k].paper_count >= 3
        /\ callOut.declining[k].year_range[2] - callOut.declining[k].year_range[1] >= 2

\* C19 (noise sentinel presence): in every response, and in every cache row,
\* if some node has cluster_id = -1 -- a node the clusterer left out or a
\* node placed without an embedding -- then the clusters list has an entry
\* with id = -1.
Unclustered(nodes) == \E i \in 1..Len(nodes) : nodes[i].cluster_id = -1

HasSentinel(clusters) == \E i \in 1..Len(clusters) : clusters[i].id = -1

C19_NoiseSentinel ==
    /\ \A r \in Requests :
          pc[r] = "done" =>
              (Unclustered(lists[HandlerNodes(r)]) => HasSentinel(lists[HandlerClusters(r)]))
    /\ \A key \in DOMAIN cache :
          Unclustered(Denoted(cache[key].nodes)) => HasSentinel(Denoted(cache[key].clusters))

\* C20 (cache key determinism): two requests that differ only in the letter
\* case of the query, the whitespace around it, the order of the field
\* filters or a parameter that is not part of the key get the same key; two
\* requests that differ in limit, in year range or in the set of field
\* filters get different keys.
Folded(query) == StrLower(StrStrip(query))

FieldList(fields) == IF fields = None THEN << >> ELSE fields

Reordered(f, g) ==
    /\ Len(f) = Len(g)
    /\ \A x \in Range(f) \cup Range(g) :
          Cardinality({i \in 1..Len(f) : f[i] = x}) = Cardinality({i \in 1..Len(g) : g[i] = x})

C20_CacheKeyDeterminism ==
    (callFn = "_cache_key" /\ callPc = "done") =>
        LET a == callArgs.a
            b == callArgs.b
            same_key == callOut.a.cache_hash = callOut.b.cache_hash
        IN /\ (/\ Folded(a.query) = Folded(b.query)
               /\ a.limit = b.limit
               /\ callOut.a.year_range = callOut.b.year_range
               /\ Reordered(FieldList(a.fields_of_study), FieldList(b.fields_of_study)))
              => same_key
           /\ (\/ a.limit # b.limit
               \/ callOut.a.year_range # callOut.b.year_range
               \/ Range(FieldList(a.fields_of_study)) # Range(FieldList(b.fields_of_study)))
              => ~same_key

\* Two requests that differ in case, in surrounding whitespace and in the
\* order of two field filters have been given the same key
C20_SameKeyForVariants ==
    /\ callFn = "_cache_key" /\ callPc = "done"
    /\ callArgs.a.query = <<"Alpha">> /\ callArgs.b.query = <<" ", "alpha", " ">>
    /\ callArgs.a.fields_of_study = <<"Medicine", "Biology">>
    /\ callArgs.b.fields_of_study = <<"Biology", "Medicine">>
    /\ callArgs.a.year_start # callArgs.b.year_start
    /\ callOut.a.cache_hash = callOut.b.cache_hash

\* C21 (cache is best-effort): a request whose cache lookup was skipped for
\* want of a connection, raised, found nothing or found a row it could not
\* read goes on to the provider search, and a request that did not answer
\* from the cache returns, whether its cache write was made, skipped or
\* raised, the graph the pipeline builds from the providers' answers alone.
PipelineResponse(r) ==
    \E found \in {Search(provRaw[r].oa, provRaw[r].s2, DefaultLimit)} :
      \E n_with \in {Cardinality({i \in 1..Len(found) : found[i].embedding # NoEmbedding})} :
        IF found = << >>
        THEN RequestSnapshot(r) = [nodes |-> << >>, edges |-> << >>, clusters |-> << >>,
                                   meta |-> EmptyMeta(request[r].query)]
        ELSE \E cluster_labels \in (IF n_with >= 2 THEN ClusterAnswers(n_with) ELSE {<< >>}) :
               \E g \in {BuildGraph(request[r].query, found, cluster_labels,
                                    request[r].similarity_threshold)} :
                  RequestSnapshot(r) = [nodes |-> g.nodes, edges |-> g.edges,
                                        clusters |-> g.clusters_info, meta |-> g.meta]

C21_CacheBestEffort ==
    \A r \in Requests :
        /\ lookup[r] \in {"skipped", "error", "miss", "unreadable"} => pc[r] \in {"fuse", "build"}
        /\ (pc[r] \in {"write", "done"} /\ lookup[r] # "hit") => PipelineResponse(r)

\* A request has returned its graph with the store connected and no row
\* under its key: its cache write raised
C21_WriteRaisedGraphReturned ==
    \E r \in Requests :
        /\ dbConnected /\ pc[r] = "done" /\ lookup[r] # "hit"
        /\ lists[HandlerNodes(r)] # << >>
        /\ request[r].cache_hash \notin DOMAIN cache

\* C22 (cluster assignment of a new paper): assign_cluster returns -1 or a
\* key of the centroid map; -1 when there are no centroids or the new
\* embedding is the zero vector; otherwise, with best the highest cosine
\* similarity of the new embedding to a centroid, a key of a centroid at
\* that similarity when best is at least the threshold, and -1 when best is
\* below the threshold.
Cosine(u, v) == (100 * Dot(u, v)) \div (Norm(u) * Norm(v))

C22_NearestCentroid ==
    (callFn = "assign_cluster" /\ callPc = "done") =>
        LET new  == callArgs.new_embedding
            cs   == callArgs.cluster_centroids
            real == {i \in 1..Len(cs) : cs[i].v # <<0, 0>>}
            best == SetMax({Cosine(new, cs[i].v) : i \in real})
        IN /\ callOut \in {-1} \cup {cs[i].k : i \in 1..Len(cs)}
           /\ (cs = << >> \/ new = <<0, 0>>) => callOut = -1
           /\ (new # <<0, 0>> /\ real # {}) =>
                 IF best >= callArgs.threshold
                 THEN callOut \in {cs[i].k : i \in {j \in real : Cosine(new, cs[j].v) = best}}
                 ELSE callOut = -1

\* C23 (request ordering on a cache miss): the enrichment task of a request
\* exists only once the request's own cache write has completed, so the
\* task's write comes after it; and the handler, standing before its cache
\* write, can always take that step, whatever the task is doing.
C23_WriteBeforeSpawn ==
    \A r \in Requests :
        /\ tpc[r] # "none" => pc[r] = "done"
        /\ pc[r] = "write" => ENABLED WriteCache(r)

\* C24 (enrichment reaches the next search): when the later of the two writes
\* of a request that missed the cache -- the handler's own and its enrichment
\* task's rewrite with at least one new citation edge -- has completed, the
\* other one having been made before, the row of the key holds the task's
\* citation edges and a meta with citation_enriched = TRUE, whichever of the
\* two came last.
Enriched(row, r) ==
    /\ Denoted(row.meta).citation_enriched
    /\ Cardinality({k \in 1..Len(Denoted(row.edges)) : Denoted(row.edges)[k].type = "citation"})
          = tloc[r].citation_edges_added

C24_EnrichmentReachesCache ==
    [][\A r \in Requests :
          LET key == request[r].cache_hash
              handler_wrote == pc[r] = "write" /\ pc'[r] = "done" /\ cache' # cache
              task_wrote    == tpc[r] = "write" /\ tpc'[r] = "done" /\ cache' # cache
          IN /\ (handler_wrote /\ tpc[r] = "done" /\ tloc[r].citation_edges_added > 0
                               /\ key \in DOMAIN cache)
                => Enriched(cache'[key], r)
             /\ (task_wrote /\ pc[r] = "done" /\ key \in DOMAIN cache)
                => Enriched(cache'[key], r)]_vars

\* The row of the similarity matrix a paper id names
RowOf(id) == CHOOSE i \in 1..Len(sIds) : sIds[i] = id

\* The other nodes that stand before j in row i's candidate list whatever
\* the order among equal similarities, and those that may stand before it
StrictlyAhead(i, j) ==
    {k \in 1..Len(sEmb) \ {i, j} : SimsRow(sEmb, i, k) > SimsRow(sEmb, i, j)}
AheadOrLevel(i, j) ==
    {k \in 1..Len(sEmb) \ {i, j} : SimsRow(sEmb, i, k) >= SimsRow(sEmb, i, j)}

\* The edges touching row x among those emitted before the pair (i, j) is
\* looked at: every edge of an earlier row, and the edges of row i whose
\* target is in the set ahead
EmittedBefore(x, i, ahead) ==
    Cardinality({k \in 1..Len(sOut) :
                   /\ sIds[x] \in Endpoints(sOut[k])
                   /\ \/ RowOf(sOut[k].source) < i
                      \/ RowOf(sOut[k].source) = i /\ RowOf(sOut[k].target) \in ahead})

HasEdge(i, j) == \E k \in 1..Len(sOut) : sOut[k].source = sIds[i] /\ sOut[k].target = sIds[j]

AllocationRule ==
    /\ \A k \in 1..Len(sOut) :
          \E i, j \in 1..Len(sEmb) :
             /\ i < j
             /\ sOut[k].source = sIds[i] /\ sOut[k].target = sIds[j]
             /\ sOut[k].similarity = SimilarityMatrix(sEmb, i, j)
             /\ sOut[k].similarity >= sThr
             /\ Cardinality(StrictlyAhead(i, j)) < sMax
             /\ EmittedBefore(i, i, StrictlyAhead(i, j)) < sMax
             /\ EmittedBefore(j, i, StrictlyAhead(i, j)) < sMax
    /\ \A k, l \in 1..Len(sOut) :
          k < l => \/ RowOf(sOut[k].source) < RowOf(sOut[l].source)
                   \/ /\ sOut[k].source = sOut[l].source
                      /\ sOut[k].similarity >= sOut[l].similarity
    /\ \A i, j \in 1..Len(sEmb) :
          (/\ i < j
           /\ SimsRow(sEmb, i, j) >= sThr
           /\ Cardinality(AheadOrLevel(i, j)) < sMax
           /\ ~HasEdge(i, j))
          => \/ EmittedBefore(i, i, AheadOrLevel(i, j)) >= sMax
             \/ EmittedBefore(j, i, AheadOrLevel(i, j)) >= sMax

TwoVectorRule ==
    Len(sEmb) = 2 =>
        Len(sOut) = (IF SimilarityMatrix(sEmb, 1, 2) >= sThr THEN 1 ELSE 0)

\* C25 (first-come edge allocation), as stated: rows are visited in index
\* order; row i's candidates are the other nodes at or above the threshold,
\* highest similarity first, cut to max_edges_per_node; the pair (i, j) gets
\* an edge iff j is among them, i < j and neither end has reached
\* max_edges_per_node edges at that moment; the weight is the matrix value;
\* and two vectors get exactly one edge when their similarity is at or
\* above the threshold and none otherwise.
C25_FirstComeAsStated ==
    sPc = "done" => AllocationRule /\ TwoVectorRule

\* C25 (first-come edge allocation), with the two-vector sentence kept to a
\* cap of at least one edge per node: under a cap of zero no pair gets an
\* edge.
C25_FirstComeAllocation ==
    sPc = "done" =>
        /\ AllocationRule
        /\ sMax >= 1 => TwoVectorRule
        /\ sMax = 0 => sOut = << >>

\* C25's case: a pair that is certainly among its row's candidates got no
\* edge because an end had reached the cap through an earlier edge.
C25_LateComerRefused ==
    /\ sPc = "done"
    /\ sMax >= 1
    /\ \E i, j \in 1..Len(sEmb) :
        /\ i < j
        /\ SimsRow(sEmb, i, j) >= sThr
        /\ Cardinality(AheadOrLevel(i, j)) < sMax
        /\ ~HasEdge(i, j)
        /\ EmittedBefore(j, i, AheadOrLevel(i, j)) >= sMax
        /\ EmittedBefore(i, i, AheadOrLevel(i, j)) < sMax

\* The 0-based ranks a record may have on a side: the positions it stands at,
\* or the length of the list when it stands nowhere in it
RanksIn(positions, length) ==
    IF positions = {} THEN {length} ELSE {p - 1 : p \in positions}

\* score = 1/(RRF_K + ra) + 1/(RRF_K + rb), on fractions
IsRrfOf(score, ra, rb) ==
    score.num * ((RRF_K + ra) * (RRF_K + rb)) = score.den * (2 * RRF_K + ra + rb)

\* C26 (RRF score): every fused record's rrf_score is
\* 1/(60 + rankA) + 1/(60 + rankB), with rankA and rankB the record's 0-based
\* positions in the provider-A and the provider-B list, and the length of the
\* list (0 for an empty list) on a side where the record does not appear.
C26_RrfScore ==
    fPc = "merged" =>
        \A k \in 1..Len(fOut) :
            \E ra \in RanksIn(OaPositions(fOut[k]), Len(fOa)),
               rb \in RanksIn(S2Positions(fOut[k]), Len(fS2)) :
                IsRrfOf(fOut[k].rrf_score, ra, rb)

\* The gaps detect_gaps computes before it filters: one per pair of listed
\* non-noise clusters that both hold a paper
ComputedGaps ==
    GapsOf(callArgs.papers, callArgs.edges,
           Combinations2(SelectSeq(callArgs.clusters, LAMBDA c : c.id # -1), 1, 2), 1)

\* The strength that stands at 0-based place max(0, floor(n / 4) - 1) among
\* the n strengths put in non-decreasing order
P25(gaps) ==
    LET n     == Len(gaps)
        place == IF n \div 4 >= 1 THEN n \div 4 - 1 ELSE 0
    IN CHOOSE v \in {gaps[k].gap_strength : k \in 1..n} :
          /\ Cardinality({k \in 1..n : gaps[k].gap_strength < v}) <= place
          /\ Cardinality({k \in 1..n : gaps[k].gap_strength <= v}) > place

InclusionThreshold(gaps) ==
    IF P25(gaps) + 1000 < 7000 THEN P25(gaps) + 1000 ELSE 7000

TaskNodesWithS2(r) ==
    {k \in 1..Len(lists[targs[r].nodes]) : Truthy(lists[targs[r].nodes][k].s2_paper_id)}

\* The batch of r's task: at most 20 ids, each of a node with a provider-B
\* id, and no node left out is cited more than a node taken
BatchIsTopCited(r) ==
    LET nodes == lists[targs[r].nodes]
        batch == tloc[r].batch_s2_ids
        taken == {k \in TaskNodesWithS2(r) :
                    \E b \in 1..Len(batch) : batch[b] = nodes[k].s2_paper_id}
    IN /\ Len(batch) <= EnrichBatchSize
       /\ \A b \in 1..Len(batch) : \E k \in TaskNodesWithS2(r) : nodes[k].s2_paper_id = batch[b]
       /\ Len(batch) < EnrichBatchSize => taken = TaskNodesWithS2(r)
       /\ \A k \in TaskNodesWithS2(r) \ taken, t \in taken :
             nodes[k].citation_count <= nodes[t].citation_count

\* A turn of the batch loop of r's task
BatchTurn(r) == tpc[r] = "fetch" /\ tloc'[r] # tloc[r]

PartialFailureStep(r) ==
    LET es     == lists[targs[r].edges]
        failed == tloc'[r].failed_count # tloc[r].failed_count
        last   == tloc[r].idx = Len(tloc[r].batch_s2_ids)
    IN /\ BatchTurn(r) =>
          /\ tloc'[r].idx = tloc[r].idx + 1
          /\ tloc'[r].batch_s2_ids = tloc[r].batch_s2_ids
          /\ IsPrefix(es, lists'[targs[r].edges])
          /\ tloc'[r].citation_edges_added
                = tloc[r].citation_edges_added + Len(lists'[targs[r].edges]) - Len(es)
          /\ failed => /\ tloc'[r].failed_count = tloc[r].failed_count + 1
                       /\ lists'[targs[r].edges] = es
          /\ ~last => tpc'[r] = "fetch"
          /\ last => tpc'[r] = IF dbConnected /\ tloc'[r].citation_edges_added > 0
                               THEN "write" ELSE "done"
       /\ (tpc[r] = "write" /\ tpc'[r] = "done" /\ cache' # cache) =>
             Denoted(cache'[targs[r].cache_hash].edges) = es

\* C28 (partial enrichment failure): a failed get_references is counted, the
\* paper is skipped and the task goes on with the rest of its batch (at most
\* the 20 most cited nodes with a provider-B id); the citation edges found
\* for the other papers stay in the task's list and are written with it; and
\* a task that has not finished can always take its next step.
C28_PartialFailure ==
    /\ [](\A r \in Requests :
            /\ tpc[r] \in {"fetch", "write", "done"} => BatchIsTopCited(r)
            /\ tpc[r] \in {"start", "fetch", "write"}
                  => ENABLED (TaskStart(r) \/ TaskFetch(r) \/ TaskWrite(r))
            /\ tpc[r] = "fetch" => tloc[r].idx <= Len(tloc[r].batch_s2_ids))
    /\ [][\A r \in Requests : PartialFailureStep(r)]_vars

\* C28's case: a task finished after a failed get_references and with a
\* citation edge found for another paper, and the row of its key holds it.
C28_FailedThenEnriched ==
    \E r \in Requests :
        /\ tpc[r] = "done"
        /\ tloc[r].failed_count > 0
        /\ tloc[r].citation_edges_added > 0
        /\ targs[r].cache_hash \in DOMAIN cache
        /\ Enriched(cache[targs[r].cache_hash], r)

AllRateLimited(answers) ==
    answers # << >> /\ \A k \in 1..Len(answers) : answers[k].status = 429

\* C29 (bounded provider retries): a request of either provider client makes
\* at most max_retries HTTP attempts and then ends, whatever the upstream
\* answers; and a request whose attempts were all answered 429 ends by
\* raising the rate-limit error of its provider (written here
\* OpenAlexRateLimitError for provider A).
C29_BoundedRetries ==
    callFn \in {"s2._request", "oa._request"} =>
        /\ Len(callOut.answers) <= callArgs.max_retries
        /\ callPc = "input" =>
              /\ Len(callOut.answers) < callArgs.max_retries \/ callOut.answers = << >>
              /\ ENABLED ProviderRequest
        /\ (callPc = "done" /\ AllRateLimited(callOut.answers)) =>
              callOut.outcome \in {"SemanticScholarRateLimitError", "OpenAlexRateLimitError"}

\* C30 (node count consistency): the meta of every search response, and of
\* every row of the cache table after any writes and rewrites for its key,
\* has total equal to the number of nodes that go with it, the nodes
\* without an embedding included.
C30_TotalIsNodeCount ==
    /\ \A r \in Requests :
          pc[r] = "done" => respMeta[r].total = Len(lists[HandlerNodes(r)])
    /\ \A key \in DOMAIN cache :
          Denoted(cache[key].meta).total = Len(Denoted(cache[key].nodes))

====
